---- MODULE Spec2Model ----
(***************************************************************************)
(* RelationshipEngine (apps/ai-core/engines/relationship_engine.py):       *)
(* the edge store, edge reinforcement / creation, decay, pruning and the   *)
(* three run modes (Incremental, Nightly, On-Demand).                      *)
(*                                                                         *)
(* Numbers.  Confidences, importances and similarities are floats in the   *)
(* code; here they are integers in hundredths (0.95 is 95).  Edge weights  *)
(* are exact rationals [n |-> numerator, d |-> denominator] in lowest      *)
(* terms, so that weight * decay_factor and weight < threshold are         *)
(* computed exactly.  Python dicts are functions whose DOMAIN is the set   *)
(* of keys present; Python's None is the string "None" for string-valued   *)
(* fields and NoneNum for number-valued fields.                            *)
(***************************************************************************)
EXTENDS Integers, Sequences, FiniteSets, TLC

VARIABLES
    edges,      \* the edge table: a set of rows, each with a unique id
    nextId,     \* the id the store gives to the next inserted row
    entities,   \* the entity table, in created_at order, oldest first (read-only for the engine)
    clock,      \* logical time: the number of operations started so far
    decays,     \* number of decay passes so far (bounds the weight denominators)
    last,       \* the last public operation: name, arguments, result, the store before it, call trace
    history,    \* whether the store started seeded, and the log of the direct edge-management calls
    input,      \* the argument drawn for a pure function
    pc,         \* concurrent runs: position of each worker
    loc         \* concurrent runs: local variables of each worker

vars == <<edges, nextId, entities, clock, decays, last, history, input, pc, loc>>

(* ------------------------------ bounds -------------------------------- *)
MaxRuns == 2
MaxCalls == 3
MaxDecays == 2
MaxLen == 3
MaxFaultyRuns == 1

(* ------------------------- generic helpers ---------------------------- *)
NoneNum == -1

Get(m, k, default) == IF k \in DOMAIN m THEN m[k] ELSE default

Put(m, k, v) == [x \in (DOMAIN m) \cup {k} |-> IF x = k THEN v ELSE m[x]]

EmptyDict == [x \in {} |-> 0]

\* A date string is a tuple of its numeric components: <<y, m, d>> for
\* "YYYY-MM-DD", <<y, m>> for "YYYY-MM", <<y>> for "YYYY"; None (and the empty
\* string, equally falsy) is the empty tuple.
NoDate == <<>>

\* A description is the text of its f-string template and the values
\* interpolated into it; None is NoDesc.
Desc(text, title, from, to) == [text |-> text, title |-> title, from |-> from, to |-> to]

NoDesc == Desc("None", <<>>, <<>>, <<>>)

Remove(m, k) == [x \in (DOMAIN m) \ {k} |-> m[x]]

RECURSIVE Gcd(_, _)
Gcd(a, b) == IF b = 0 THEN a ELSE Gcd(b, a % b)

Rat(n, d) == LET g == Gcd(n, d) IN [n |-> n \div g, d |-> d \div g]

RatMul(a, b) == Rat(a.n * b.n, a.d * b.d)

RatAddOne(a) == [n |-> a.n + a.d, d |-> a.d]

RatLt(a, b) == a.n * b.d < b.n * a.d

One == [n |-> 1, d |-> 1]

InSeq(x, s) == \E i \in 1..Len(s) : s[i] = x

RECURSIVE SeqOfSet(_)
SeqOfSet(S) ==
    IF S = {} THEN <<>>
    ELSE LET m == CHOOSE x \in S : \A y \in S : x.id <= y.id
         IN <<m>> \o SeqOfSet(S \ {m})

(* ---------------------------- edge store ------------------------------ *)
(* The store operations the engine calls on DatabaseService.              *)

Matching(store, from_id, to_id, kind) ==
    {e \in store : e.from_id = from_id /\ e.to_id = to_id /\ e.kind = kind}

HasEdge(store, from_id, to_id, kind) == Matching(store, from_id, to_id, kind) # {}

get_edge_by_from_to_kind(store, from_id, to_id, kind) ==
    LET M == Matching(store, from_id, to_id, kind)
    IN CHOOSE e \in M : \A o \in M : e.id <= o.id

update_edge(store, id, fields) ==
    {IF e.id = id
        THEN [k \in DOMAIN e |-> IF k \in DOMAIN fields THEN fields[k] ELSE e[k]]
        ELSE e : e \in store}

\* Mutant: the table has a unique constraint on (from_id, to_id, kind) and an
\* insert that conflicts with it is ignored.
create_edge_unique(store, nid, edge_data, now) ==
    IF HasEdge(store, edge_data.from_id, edge_data.to_id, edge_data.kind) THEN store
    ELSE store \cup {[id |-> nid,
                 from_id |-> edge_data.from_id,
                 to_id |-> edge_data.to_id,
                 kind |-> edge_data.kind,
                 confidence |-> edge_data.confidence,
                 importance |-> edge_data.importance,
                 description |-> edge_data.description,
                 start_date |-> edge_data.start_date,
                 end_date |-> edge_data.end_date,
                 weight |-> edge_data.weight,
                 last_reinforced_at |-> edge_data.last_reinforced_at,
                 metadata |-> edge_data.metadata,
                 source_event_id |-> Get(edge_data, "source_event_id", "None"),
                 created_at |-> now,
                 updated_at |-> NoneNum]}

create_edge(store, nid, edge_data, now) ==
    store \cup {[id |-> nid,
                 from_id |-> edge_data.from_id,
                 to_id |-> edge_data.to_id,
                 kind |-> edge_data.kind,
                 confidence |-> edge_data.confidence,
                 importance |-> edge_data.importance,
                 description |-> edge_data.description,
                 start_date |-> edge_data.start_date,
                 end_date |-> edge_data.end_date,
                 weight |-> edge_data.weight,
                 last_reinforced_at |-> edge_data.last_reinforced_at,
                 metadata |-> edge_data.metadata,
                 source_event_id |-> Get(edge_data, "source_event_id", "None"),
                 created_at |-> now,
                 updated_at |-> NoneNum]}

delete_edges_below_weight(store, threshold) ==
    [edges |-> {e \in store : ~RatLt(e.weight, threshold)},
     count |-> Cardinality({e \in store : RatLt(e.weight, threshold)})]

get_all_edges(store) == SeqOfSet(store)

get_outgoing_edges(store, entity_id) == SeqOfSet({e \in store : e.from_id = entity_id})

(* -------------------------- edge management --------------------------- *)

SourceEventOf(relationship) ==
    Get(Get(relationship, "metadata", EmptyDict), "source_event_id", "None")

Truthy(event_id) == event_id # "None" /\ event_id # ""

\* Mutant: the confidence is overwritten by the proposal's instead of raised.
ReinforceFields_overwrite(existing_edge, relationship, now) ==
    LET m0 == existing_edge.metadata
        m1 == Put(m0, "reinforcement_count", Get(m0, "reinforcement_count", 0) + 1)
        m2 == IF "detected_in_events" \in DOMAIN m1 THEN m1
              ELSE Put(m1, "detected_in_events", <<>>)
        event_id == SourceEventOf(relationship)
        m3 == IF Truthy(event_id) /\ ~InSeq(event_id, m2["detected_in_events"])
              THEN Put(m2, "detected_in_events", Append(m2["detected_in_events"], event_id))
              ELSE m2
    IN [weight |-> RatAddOne(existing_edge.weight),
        last_reinforced_at |-> now,
        metadata |-> m3,
        confidence |-> Get(relationship, "confidence", 50)]

\* Mutant: the event id is appended without looking whether it is listed.
ReinforceFields_append_always(existing_edge, relationship, now) ==
    LET m0 == existing_edge.metadata
        m1 == Put(m0, "reinforcement_count", Get(m0, "reinforcement_count", 0) + 1)
        m2 == IF "detected_in_events" \in DOMAIN m1 THEN m1
              ELSE Put(m1, "detected_in_events", <<>>)
        event_id == SourceEventOf(relationship)
        m3 == IF Truthy(event_id)
              THEN Put(m2, "detected_in_events", Append(m2["detected_in_events"], event_id))
              ELSE m2
        c == Get(relationship, "confidence", 50)
    IN [weight |-> RatAddOne(existing_edge.weight),
        last_reinforced_at |-> now,
        metadata |-> m3,
        confidence |-> IF existing_edge.confidence >= c THEN existing_edge.confidence ELSE c]

\* Mutant: reinforcement also takes importance, description and the metadata
\* keys of the new proposal.
ReinforceFields_refresh(existing_edge, relationship, now) ==
    LET p == Get(relationship, "metadata", EmptyDict)
        m0 == [k \in DOMAIN existing_edge.metadata \cup DOMAIN p |->
                  IF k \in DOMAIN p THEN p[k] ELSE existing_edge.metadata[k]]
        m1 == Put(m0, "reinforcement_count",
                  Get(existing_edge.metadata, "reinforcement_count", 0) + 1)
        m2 == Put(m1, "detected_in_events",
                  Get(existing_edge.metadata, "detected_in_events", <<>>))
        event_id == SourceEventOf(relationship)
        m3 == IF Truthy(event_id) /\ ~InSeq(event_id, m2["detected_in_events"])
              THEN Put(m2, "detected_in_events", Append(m2["detected_in_events"], event_id))
              ELSE m2
        c == Get(relationship, "confidence", 50)
    IN [weight |-> RatAddOne(existing_edge.weight),
        last_reinforced_at |-> now,
        metadata |-> m3,
        importance |-> Get(relationship, "importance", existing_edge.importance),
        description |-> Get(relationship, "description", existing_edge.description),
        confidence |-> IF existing_edge.confidence >= c THEN existing_edge.confidence ELSE c]

ReinforceFields(existing_edge, relationship, now) ==
    LET m0 == existing_edge.metadata
        m1 == Put(m0, "reinforcement_count", Get(m0, "reinforcement_count", 0) + 1)
        m2 == IF "detected_in_events" \in DOMAIN m1 THEN m1
              ELSE Put(m1, "detected_in_events", <<>>)
        event_id == SourceEventOf(relationship)
        m3 == IF Truthy(event_id) /\ ~InSeq(event_id, m2["detected_in_events"])
              THEN Put(m2, "detected_in_events", Append(m2["detected_in_events"], event_id))
              ELSE m2
        c == Get(relationship, "confidence", 50)
    IN [weight |-> RatAddOne(existing_edge.weight),
        last_reinforced_at |-> now,
        metadata |-> m3,
        confidence |-> IF existing_edge.confidence >= c THEN existing_edge.confidence ELSE c]

\* Mutant: a new edge starts at weight 2.0.
NewEdgeData_heavy(relationship, now) ==
    LET event_id == SourceEventOf(relationship)
        m0 == Get(relationship, "metadata", EmptyDict)
        m1 == Put(m0, "reinforcement_count", 0)
        m2 == Put(m1, "detected_in_events",
                  IF Truthy(event_id) THEN <<event_id>> ELSE <<>>)
        base == [from_id |-> relationship.from_id,
                 to_id |-> relationship.to_id,
                 kind |-> relationship.kind,
                 confidence |-> Get(relationship, "confidence", 100),
                 importance |-> Get(relationship, "importance", NoneNum),
                 description |-> Get(relationship, "description", NoDesc),
                 start_date |-> Get(relationship, "start_date", NoDate),
                 end_date |-> Get(relationship, "end_date", NoDate),
                 weight |-> RatAddOne(One),
                 last_reinforced_at |-> now,
                 metadata |-> m2]
    IN IF Truthy(event_id) THEN Put(base, "source_event_id", event_id) ELSE base

NewEdgeData(relationship, now) ==
    LET event_id == SourceEventOf(relationship)
        m0 == Get(relationship, "metadata", EmptyDict)
        m1 == Put(m0, "reinforcement_count", 0)
        m2 == Put(m1, "detected_in_events",
                  IF Truthy(event_id) THEN <<event_id>> ELSE <<>>)
        base == [from_id |-> relationship.from_id,
                 to_id |-> relationship.to_id,
                 kind |-> relationship.kind,
                 confidence |-> Get(relationship, "confidence", 100),
                 importance |-> Get(relationship, "importance", NoneNum),
                 description |-> Get(relationship, "description", NoDesc),
                 start_date |-> Get(relationship, "start_date", NoDate),
                 end_date |-> Get(relationship, "end_date", NoDate),
                 weight |-> One,
                 last_reinforced_at |-> now,
                 metadata |-> m2]
    IN IF Truthy(event_id) THEN Put(base, "source_event_id", event_id) ELSE base

\* Mutant: the lookup passes to_id and from_id in the wrong order.
create_or_update_edge_swapped(store, nid, relationship, now) ==
    IF HasEdge(store, relationship.to_id, relationship.from_id, relationship.kind)
    THEN LET existing_edge == get_edge_by_from_to_kind(store, relationship.to_id,
                                                       relationship.from_id, relationship.kind)
         IN [edges |-> update_edge(store, existing_edge.id,
                                   ReinforceFields(existing_edge, relationship, now)),
             nextId |-> nid,
             ret |-> TRUE]
    ELSE [edges |-> create_edge(store, nid, NewEdgeData(relationship, now), now),
          nextId |-> nid + 1,
          ret |-> FALSE]

\* The result of one call: the new store, the next free id, and the return
\* value (TRUE = reinforced, FALSE = created).
create_or_update_edge(store, nid, relationship, now) ==
    IF HasEdge(store, relationship.from_id, relationship.to_id, relationship.kind)
    THEN LET existing_edge == get_edge_by_from_to_kind(store, relationship.from_id,
                                                       relationship.to_id, relationship.kind)
         IN [edges |-> update_edge(store, existing_edge.id,
                                   ReinforceFields(existing_edge, relationship, now)),
             nextId |-> nid,
             ret |-> TRUE]
    ELSE [edges |-> create_edge(store, nid, NewEdgeData(relationship, now), now),
          nextId |-> nid + 1,
          ret |-> FALSE]

\* Mutant: edges whose weight equals the threshold are deleted as well.
prune_weak_edges_inclusive(store, threshold) ==
    [edges |-> {e \in store : RatLt(threshold, e.weight)},
     ret |-> Cardinality({e \in store : ~RatLt(threshold, e.weight)})]

prune_weak_edges(store, threshold) ==
    LET r == delete_edges_below_weight(store, threshold)
    IN [edges |-> r.edges, ret |-> r.count]

\* Mutant: the decay write also stamps last_reinforced_at.
RECURSIVE DecayLoop_stamping(_, _, _, _)
DecayLoop_stamping(store, todo, decay_factor, now) ==
    IF todo = <<>> THEN store
    ELSE DecayLoop_stamping(update_edge(store, Head(todo).id,
                                        [weight |-> RatMul(Head(todo).weight, decay_factor),
                                         last_reinforced_at |-> now,
                                         updated_at |-> now]),
                            Tail(todo), decay_factor, now)

RECURSIVE DecayLoop(_, _, _, _)
DecayLoop(store, todo, decay_factor, now) ==
    IF todo = <<>> THEN store
    ELSE DecayLoop(update_edge(store, Head(todo).id,
                               [weight |-> RatMul(Head(todo).weight, decay_factor),
                                updated_at |-> now]),
                   Tail(todo), decay_factor, now)

\* Mutant: only edges of weight 1.0 or more are decayed.
apply_global_decay_selective(store, decay_factor, now) ==
    LET all == get_all_edges({e \in store : ~RatLt(e.weight, One)})
    IN [edges |-> DecayLoop(store, all, decay_factor, now), ret |-> Len(all)]

apply_global_decay(store, decay_factor, now) ==
    LET all == get_all_edges(store)
    IN [edges |-> DecayLoop(store, all, decay_factor, now), ret |-> Len(all)]

(* ------------------------------ entities ------------------------------ *)
\* Titles are sequences of characters.
T_CTO_at_Acme == <<"C", "T", "O", " ", "a", "t", " ", "A", "c", "m", "e">>
T_Acme == <<"A", "c", "m", "e">>
T_Ann == <<"A", "n", "n">>

\* Wall-clock hour of the runs, and the creation hours of the entities.
WallNow == 30

World ==
    << [id |-> "p1", title |-> T_Ann, type |-> "person", summary |-> "None",
        metadata |-> [start_date |-> <<2021, 6, 1>>, end_date |-> <<2021, 12, 31>>],
        created_at |-> 1, updated_at |-> 20, source_event_id |-> "ev2"],
       [id |-> "r1", title |-> T_CTO_at_Acme, type |-> "role", summary |-> "None",
        metadata |-> [start_date |-> <<2020, 1, 1>>, end_date |-> <<2022, 12, 31>>],
        created_at |-> 10, updated_at |-> 10, source_event_id |-> "ev1"],
       [id |-> "o1", title |-> T_Acme, type |-> "organization", summary |-> "None",
        metadata |-> EmptyDict,
        created_at |-> 10, updated_at |-> 10, source_event_id |-> "ev1"] >>

EventIds == {"ev1", "ev2", "ev0"}

RECURSIVE Reverse(_)
Reverse(s) == IF s = <<>> THEN <<>> ELSE Reverse(Tail(s)) \o <<Head(s)>>

Take(s, n) == IF Len(s) <= n THEN s ELSE SubSeq(s, 1, n)

get_entities_by_event(ents, event_id) ==
    LET P(e) == e.source_event_id = event_id IN SelectSeq(ents, P)

get_recent_entities(ents, limit) == Take(Reverse(ents), limit)

get_all_entities(ents) == ents

get_entities_created_since(ents, since) ==
    LET P(e) == e.created_at >= since IN Reverse(SelectSeq(ents, P))

get_entity_by_id(ents, entity_id) ==
    LET P(e) == e.id = entity_id IN SelectSeq(ents, P)

\* The dict the run modes build from an entity object.
EntityDict(e) ==
    [id |-> e.id, title |-> e.title, type |-> e.type,
     summary |-> e.summary, metadata |-> e.metadata]

EntityDicts(es) == [i \in 1..Len(es) |-> EntityDict(es[i])]

(* ------------------------ pattern-based strategy ---------------------- *)
UpperChars == <<"A", "B", "C", "D", "E", "F", "G", "H", "I", "J", "K", "L", "M",
                "N", "O", "P", "Q", "R", "S", "T", "U", "V", "W", "X", "Y", "Z">>

LowerChars == <<"a", "b", "c", "d", "e", "f", "g", "h", "i", "j", "k", "l", "m",
                "n", "o", "p", "q", "r", "s", "t", "u", "v", "w", "x", "y", "z">>

ToLower == [c \in {UpperChars[i] : i \in 1..26} |->
               LowerChars[CHOOSE i \in 1..26 : UpperChars[i] = c]]

LowerChar(c) == IF c \in DOMAIN ToLower THEN ToLower[c] ELSE c

\* str.lower()
Lower(s) == [i \in 1..Len(s) |-> LowerChar(s[i])]

IsSpace(c) == c = " "

\* str.strip()
RECURSIVE Strip(_)
Strip(s) ==
    IF s = <<>> THEN s
    ELSE IF IsSpace(Head(s)) THEN Strip(Tail(s))
    ELSE IF IsSpace(s[Len(s)]) THEN Strip(SubSeq(s, 1, Len(s) - 1))
    ELSE s

\* needle in hay
Contains(hay, needle) ==
    \E i \in 0..(Len(hay) - Len(needle)) : SubSeq(hay, i + 1, i + Len(needle)) = needle

\* Number of whitespace characters of s from position a on.
RECURSIVE SpaceRun(_, _)
SpaceRun(s, a) == IF a <= Len(s) /\ IsSpace(s[a]) THEN 1 + SpaceRun(s, a + 1) ELSE 0

\* (?:\s*\(|$) matches right after position e.
TailOK(s, e) ==
    \/ e = Len(s)
    \/ \E j \in (e + 1)..Len(s) : s[j] = "(" /\ \A x \in (e + 1)..(j - 1) : IsSpace(s[x])

\* re.search(lit \s{minWs,} (.+?) (?:\s*\(|$), s, re.IGNORECASE) where lit is
\* "at" (minWs = 1) or "," (minWs = 0).  After the literal the whitespace run
\* is taken as long as it leaves the group a character; GroupStart is where
\* the group then begins, 0 when the match fails at start i.
GroupStart(s, lit, minWs, i) ==
    IF i + Len(lit) - 1 > Len(s) THEN 0
    ELSE IF \E x \in 1..Len(lit) : LowerChar(s[i + x - 1]) # lit[x] THEN 0
    ELSE LET a == i + Len(lit)
             w == SpaceRun(s, a)
             k == IF a + w <= Len(s) THEN w ELSE w - 1
         IN IF k >= minWs /\ a + k <= Len(s) THEN a + k ELSE 0

\* The group of the leftmost match: the shortest one that TailOK follows.
RECURSIVE GroupEnd(_, _)
GroupEnd(s, e) == IF TailOK(s, e) THEN e ELSE GroupEnd(s, e + 1)

RECURSIVE SearchFrom(_, _, _, _)
SearchFrom(s, lit, minWs, i) ==
    IF i > Len(s) THEN [found |-> FALSE, group |-> <<>>]
    ELSE IF GroupStart(s, lit, minWs, i) = 0 THEN SearchFrom(s, lit, minWs, i + 1)
    ELSE [found |-> TRUE,
          group |-> SubSeq(s, GroupStart(s, lit, minWs, i),
                           GroupEnd(s, GroupStart(s, lit, minWs, i)))]

RegexSearch(s, lit, minWs) == SearchFrom(s, lit, minWs, 1)

Patterns == << [lit |-> <<"a", "t">>, minWs |-> 1], [lit |-> <<",">>, minWs |-> 0] >>

OrgMatches(org_name_in_title, org_title) ==
    \/ Contains(Lower(org_title), Lower(org_name_in_title))
    \/ Contains(Lower(org_name_in_title), Lower(org_title))

RoleAtProposal(role, org) ==
    [from_id |-> role.id, to_id |-> org.id, kind |-> "role_at",
     confidence |-> 95, importance |-> 85,
     description |-> Desc("Role at", org.title, <<>>, <<>>),
     start_date |-> NoDate, end_date |-> NoDate,
     metadata |-> [pattern_match |-> "role_at_organization"]]

\* The proposals of one role if a pattern whose text matches no organization
\* did not end the search.
RoleProposals_fallthrough(role, org_entities) ==
    LET Orgs(p) == {o \in 1..Len(org_entities) :
                       /\ RegexSearch(role.title, Patterns[p].lit, Patterns[p].minWs).found
                       /\ OrgMatches(Strip(RegexSearch(role.title, Patterns[p].lit,
                                                       Patterns[p].minWs).group),
                                     org_entities[o].title)}
        hits == {p \in 1..Len(Patterns) : Orgs(p) # {}}
    IN IF hits = {} THEN <<>>
       ELSE LET p == CHOOSE x \in hits : \A y \in hits : x <= y
            IN <<RoleAtProposal(role,
                     org_entities[CHOOSE x \in Orgs(p) : \A y \in Orgs(p) : x <= y])>>

\* The proposals of one role: only the first pattern that matches is used,
\* and of its organizations only the first that matches.
RoleProposals(role, org_entities) ==
    LET hits == {p \in 1..Len(Patterns) :
                    RegexSearch(role.title, Patterns[p].lit, Patterns[p].minWs).found}
    IN IF hits = {} THEN <<>>
       ELSE LET p == CHOOSE x \in hits : \A y \in hits : x <= y
                org_name_in_title ==
                    Strip(RegexSearch(role.title, Patterns[p].lit, Patterns[p].minWs).group)
                ok == {o \in 1..Len(org_entities) :
                          OrgMatches(org_name_in_title, org_entities[o].title)}
            IN IF ok = {} THEN <<>>
               ELSE <<RoleAtProposal(role,
                          org_entities[CHOOSE x \in ok : \A y \in ok : x <= y])>>

RECURSIVE PatternLoop(_, _)
PatternLoop(role_entities, org_entities) ==
    IF role_entities = <<>> THEN <<>>
    ELSE RoleProposals(Head(role_entities), org_entities)
             \o PatternLoop(Tail(role_entities), org_entities)

strategy_pattern_based(ents) ==
    LET IsRole(e) == e.type = "role"
        IsOrg(e) == e.type = "organization"
    IN PatternLoop(SelectSeq(ents, IsRole), SelectSeq(ents, IsOrg))

(* --------------------------- semantic strategy ------------------------ *)
\* The language model's answer after json.loads: status "ok" with the list
\* under "relationships", "badjson" (json.loads raises), "truncated" (the text
\* stops after the complete records listed under "relationships", before the
\* list and the object are closed, so json.loads raises) or "raise" (the call
\* raises).  An alias token "e<i>" is the integer i; any other token is -1.
SemanticLimit == 20

MapAlias(rel, n, ents) ==
    LET from_short == Get(rel, "from_entity_id", -1)
        to_short == Get(rel, "to_entity_id", -1)
    IN IF from_short \in 0..(n - 1) /\ to_short \in 0..(n - 1)
       THEN Remove(Remove(Remove(
                Put(Put(Put(rel, "from_id", ents[from_short + 1].id),
                        "to_id", ents[to_short + 1].id),
                    "kind", rel["relationship_type"]),
                "relationship_type"), "from_entity_id"), "to_entity_id")
       ELSE rel

AliasResolves(rel, n) ==
    /\ Get(rel, "from_entity_id", -1) \in 0..(n - 1)
    /\ Get(rel, "to_entity_id", -1) \in 0..(n - 1)

strategy_semantic_llm(ents_in, response) ==
    IF Len(ents_in) < 2 THEN <<>>
    ELSE LET ents == Take(ents_in, SemanticLimit)
             n == Len(ents)
             rels == response.relationships
             HasIds(r) == "from_id" \in DOMAIN r /\ "to_id" \in DOMAIN r
         IN IF response.status # "ok" THEN <<>>
            ELSE IF \E i \in 1..Len(rels) :
                        AliasResolves(rels[i], n) /\ "relationship_type" \notin DOMAIN rels[i]
            THEN <<>>
            ELSE SelectSeq([i \in 1..Len(rels) |-> MapAlias(rels[i], n, ents)], HasIds)

(* ----------------------- embedding-similarity strategy ---------------- *)
SimilarityThreshold == 75

DuplicateThreshold == 95

\* Cosine similarity of the embeddings of two entity texts, in hundredths.
EmbeddingSim(a, b) ==
    IF {a, b} = {"p1", "r1"} THEN 80
    ELSE IF {a, b} = {"r1", "o1"} THEN 97
    ELSE IF a = b THEN 100
    ELSE 40

SimilarProposal(entity_a, entity_b, similarity) ==
    [from_id |-> entity_a.id, to_id |-> entity_b.id, kind |-> "semantically_related",
     confidence |-> similarity, importance |-> 60,
     description |-> Desc("Semantically similar", <<>>, <<>>, <<>>),
     start_date |-> NoDate, end_date |-> NoDate,
     metadata |-> [embedding_similarity |-> similarity]]

PairProposalSim(ents, i, j) ==
    LET similarity == EmbeddingSim(ents[i].id, ents[j].id)
    IN IF similarity >= SimilarityThreshold
          /\ ~(ents[i].type = ents[j].type /\ similarity > DuplicateThreshold)
       THEN <<SimilarProposal(ents[i], ents[j], similarity)>>
       ELSE <<>>

\* for i in range(n): for j in range(i + 1, n): body(i, j), as one sequence
RECURSIVE SimPairs(_, _, _)
SimPairs(ents, i, j) ==
    IF i > Len(ents) THEN <<>>
    ELSE IF j > Len(ents) THEN SimPairs(ents, i + 1, i + 2)
    ELSE PairProposalSim(ents, i, j) \o SimPairs(ents, i, j + 1)

strategy_embedding_similarity(ents, service_ok) ==
    IF Len(ents) < 2 THEN <<>>
    ELSE IF ~service_ok THEN <<>>
    ELSE SimPairs(ents, 1, 2)

(* ---------------------------- temporal strategy ----------------------- *)
IsLeap(y) == (y % 4 = 0 /\ y % 100 # 0) \/ y % 400 = 0

DaysInMonth(y, m) ==
    IF m = 2 THEN (IF IsLeap(y) THEN 29 ELSE 28)
    ELSE IF m \in {4, 6, 9, 11} THEN 30 ELSE 31

\* Day number of a calendar date (days since 1970-01-01).
DayNumber(y, m, d) ==
    LET yy == IF m <= 2 THEN y - 1 ELSE y
        era == yy \div 400
        yoe == yy - era * 400
        mp == (m + 9) % 12
        doy == (153 * mp + 2) \div 5 + d - 1
        doe == yoe * 365 + yoe \div 4 - yoe \div 100 + doy
    IN era * 146097 + doe - 719468

DateOf(y, m, d) == [ok |-> TRUE, y |-> y, m |-> m, d |-> d, days |-> DayNumber(y, m, d)]

NoParse == [ok |-> FALSE, y |-> 0, m |-> 0, d |-> 0, days |-> 0]

\* parse_date: '%Y-%m-%d', then '%Y-%m', then '%Y'; None when nothing fits.
parse_date(date_str) ==
    IF date_str = <<>> THEN NoParse
    ELSE LET y == date_str[1]
             m == IF Len(date_str) >= 2 THEN date_str[2] ELSE 1
             d == IF Len(date_str) >= 3 THEN date_str[3] ELSE 1
         IN IF Len(date_str) <= 3 /\ y \in 1..9999 /\ m \in 1..12 /\ d >= 1
               /\ d <= DaysInMonth(y, m)
            THEN DateOf(y, m, d)
            ELSE NoParse

FarFuture == DateOf(2099, 12, 31)

FarPast == DateOf(1900, 1, 1)

\* strftime('%Y-%m-%d')
FormatDate(dt) == <<dt.y, dt.m, dt.d>>

\* The proposal if the duration tiers included their lower limits.
TemporalProposal_inclusive(entity_a, entity_b, overlap_start, overlap_end) ==
    LET overlap_days == overlap_end.days - overlap_start.days
        confidence == IF overlap_days >= 365 THEN 80
                      ELSE IF overlap_days >= 90 THEN 70 ELSE 60
    IN [from_id |-> entity_a.id, to_id |-> entity_b.id, kind |-> "temporal_overlap",
        confidence |-> confidence, importance |-> 50,
        description |->
            IF overlap_end.y = 2099
            THEN Desc("Co-occurred during from .. onwards", <<>>, FormatDate(overlap_start), <<>>)
            ELSE Desc("Co-occurred during .. to ..", <<>>,
                      FormatDate(overlap_start), FormatDate(overlap_end)),
        start_date |-> FormatDate(overlap_start),
        end_date |-> IF overlap_end.y < 2099 THEN FormatDate(overlap_end) ELSE NoDate,
        metadata |-> [overlap_days |-> overlap_days]]

TemporalProposal(entity_a, entity_b, overlap_start, overlap_end) ==
    LET overlap_days == overlap_end.days - overlap_start.days
        confidence == IF overlap_days > 365 THEN 80
                      ELSE IF overlap_days > 90 THEN 70 ELSE 60
    IN [from_id |-> entity_a.id, to_id |-> entity_b.id, kind |-> "temporal_overlap",
        confidence |-> confidence, importance |-> 50,
        description |->
            IF overlap_end.y = 2099
            THEN Desc("Co-occurred during from .. onwards", <<>>, FormatDate(overlap_start), <<>>)
            ELSE Desc("Co-occurred during .. to ..", <<>>,
                      FormatDate(overlap_start), FormatDate(overlap_end)),
        start_date |-> FormatDate(overlap_start),
        end_date |-> IF overlap_end.y < 2099 THEN FormatDate(overlap_end) ELSE NoDate,
        metadata |-> [overlap_days |-> overlap_days]]

PairProposalTemporal(entity_a, entity_b) ==
    LET ps_a == parse_date(Get(entity_a.metadata, "start_date", NoDate))
        pe_a == parse_date(Get(entity_a.metadata, "end_date", NoDate))
        ps_b == parse_date(Get(entity_b.metadata, "start_date", NoDate))
        pe_b == parse_date(Get(entity_b.metadata, "end_date", NoDate))
        end_a == IF pe_a.ok THEN pe_a ELSE FarFuture
        end_b == IF pe_b.ok THEN pe_b ELSE FarFuture
        start_a == IF ps_a.ok THEN ps_a ELSE FarPast
        start_b == IF ps_b.ok THEN ps_b ELSE FarPast
    IN IF ~(ps_a.ok \/ pe_a.ok) \/ ~(ps_b.ok \/ pe_b.ok) THEN <<>>
       ELSE IF start_a.days <= end_b.days /\ end_a.days >= start_b.days
       THEN <<TemporalProposal(entity_a, entity_b,
                  IF start_a.days >= start_b.days THEN start_a ELSE start_b,
                  IF end_a.days <= end_b.days THEN end_a ELSE end_b)>>
       ELSE <<>>

RECURSIVE TemporalPairs(_, _, _)
TemporalPairs(ents, i, j) ==
    IF i > Len(ents) THEN <<>>
    ELSE IF j > Len(ents) THEN TemporalPairs(ents, i + 1, i + 2)
    ELSE PairProposalTemporal(ents[i], ents[j]) \o TemporalPairs(ents, i, j + 1)

strategy_temporal(ents) ==
    LET HasBound(e) == Get(e.metadata, "start_date", NoDate) # NoDate
                       \/ Get(e.metadata, "end_date", NoDate) # NoDate
        temporal_entities == SelectSeq(ents, HasBound)
    IN IF Len(temporal_entities) < 2 THEN <<>>
       ELSE TemporalPairs(temporal_entities, 1, 2)

(* ------------------------- graph-topology strategy -------------------- *)
TopologyMinEntities == 3

\* The (origin, first edge, second edge) triples in the order the nested
\* loops of the strategy visit them.
RECURSIVE SecondHops(_, _, _)
SecondHops(entity_id, first_edge, second_order_edges) ==
    IF second_order_edges = <<>> THEN <<>>
    ELSE <<[origin |-> entity_id, first |-> first_edge, second |-> Head(second_order_edges)]>>
             \o SecondHops(entity_id, first_edge, Tail(second_order_edges))

RECURSIVE FirstHops(_, _, _)
FirstHops(store, entity_id, first_order_edges) ==
    IF first_order_edges = <<>> THEN <<>>
    ELSE SecondHops(entity_id, Head(first_order_edges),
                    get_outgoing_edges(store, Head(first_order_edges).to_id))
             \o FirstHops(store, entity_id, Tail(first_order_edges))

RECURSIVE TwoHopWalk(_, _)
TwoHopWalk(store, entity_ids) ==
    IF entity_ids = <<>> THEN <<>>
    ELSE FirstHops(store, Head(entity_ids), get_outgoing_edges(store, Head(entity_ids)))
             \o TwoHopWalk(store, Tail(entity_ids))

InferredProposal(hop) ==
    [from_id |-> hop.origin, to_id |-> hop.second.to_id, kind |-> "inferred_connection",
     confidence |-> 50, importance |-> 40,
     description |-> Desc("Inferred via", <<hop.first.to_id>>, <<>>, <<>>),
     start_date |-> NoDate, end_date |-> NoDate,
     metadata |-> [intermediate_entity_id |-> hop.first.to_id,
                   first_edge_kind |-> hop.first.kind,
                   second_edge_kind |-> hop.second.kind]]

\* The loop if only an existing inferred_connection kept a pair from being
\* proposed.
RECURSIVE TopologyLoop_inferred_only(_, _, _)
TopologyLoop_inferred_only(store, hops, checked_pairs) ==
    IF hops = <<>> THEN <<>>
    ELSE LET hop == Head(hops)
             entity_id == hop.origin
             target_id == hop.second.to_id
             pair_key == <<entity_id, target_id>>
         IN IF target_id = entity_id THEN TopologyLoop_inferred_only(store, Tail(hops), checked_pairs)
            ELSE IF pair_key \in checked_pairs
            THEN TopologyLoop_inferred_only(store, Tail(hops), checked_pairs)
            ELSE IF HasEdge(store, entity_id, target_id, "inferred_connection")
            THEN TopologyLoop_inferred_only(store, Tail(hops), checked_pairs \cup {pair_key})
            ELSE <<InferredProposal(hop)>>
                     \o TopologyLoop_inferred_only(store, Tail(hops), checked_pairs \cup {pair_key})

RECURSIVE TopologyLoop(_, _, _)
TopologyLoop(store, hops, checked_pairs) ==
    IF hops = <<>> THEN <<>>
    ELSE LET hop == Head(hops)
             entity_id == hop.origin
             target_id == hop.second.to_id
             pair_key == <<entity_id, target_id>>
         IN IF target_id = entity_id THEN TopologyLoop(store, Tail(hops), checked_pairs)
            ELSE IF pair_key \in checked_pairs
            THEN TopologyLoop(store, Tail(hops), checked_pairs)
            ELSE IF HasEdge(store, entity_id, target_id, "inferred_connection")
                    \/ \E e \in store : e.from_id = entity_id /\ e.to_id = target_id
            THEN TopologyLoop(store, Tail(hops), checked_pairs \cup {pair_key})
            ELSE <<InferredProposal(hop)>>
                     \o TopologyLoop(store, Tail(hops), checked_pairs \cup {pair_key})

\* reads_ok = FALSE: a store read of the walk raises, and the strategy's
\* except clause returns [].
strategy_graph_topology(store, entity_ids, reads_ok) ==
    IF Len(entity_ids) < TopologyMinEntities THEN <<>>
    ELSE IF ~reads_ok THEN <<>>
    ELSE TopologyLoop(store, TwoHopWalk(store, entity_ids), {})

(* --------------------------- confidence filter ------------------------ *)
min_confidence == 50

\* Mutant: the comparison is strict.
_filter_by_confidence_strict(relationships) ==
    LET Keep(r) == Get(r, "confidence", 0) > min_confidence
    IN SelectSeq(relationships, Keep)

_filter_by_confidence(relationships) ==
    LET Keep(r) == Get(r, "confidence", 0) >= min_confidence
    IN SelectSeq(relationships, Keep)

(* ------------------------------- run modes ---------------------------- *)
RecentLimit == 50

NightlyWindowHours == 24

NightlyDecay == [n |-> 99, d |-> 100]

NightlyPrune == [n |-> 1, d |-> 10]

\* rel['metadata']['source_strategy'] = ..., and in Incremental also
\* rel['metadata']['source_event_id'] = event_id ("None": not set).
Tag(rel, strategy_name, event_id) ==
    LET m0 == Get(rel, "metadata", EmptyDict)
        m1 == Put(m0, "source_strategy", strategy_name)
        m2 == IF event_id = "None" THEN m1 ELSE Put(m1, "source_event_id", event_id)
    IN Put(rel, "metadata", m2)

\* The surviving proposals of the run in processing order: strategy order,
\* then proposal order.
RECURSIVE Surviving(_, _)
Surviving(strategies, event_id) ==
    IF strategies = <<>> THEN <<>>
    ELSE LET filtered == _filter_by_confidence(Head(strategies).relationships)
         IN [i \in 1..Len(filtered) |-> Tag(filtered[i], Head(strategies).name, event_id)]
                \o Surviving(Tail(strategies), event_id)

\* What can go wrong outside the engine during a run: reads_ok = FALSE, the
\* store reads of the topology walk raise; fail_at = k >= 1, the store call of
\* the run's k-th create_or_update_edge raises (0: none does).
NoFaults == [reads_ok |-> TRUE, fail_at |-> 0]

\* Mutant: the loop catches the exception of a failing call and goes on with
\* the next proposal.
RECURSIVE ApplyLoop_isolating(_, _, _, _, _, _, _)
ApplyLoop_isolating(store, nid, rels, now, created, updated, fail_at) ==
    IF rels = <<>>
    THEN [edges |-> store, nextId |-> nid, edges_created |-> created,
          edges_updated |-> updated, raised |-> FALSE]
    ELSE IF fail_at = 1
    THEN ApplyLoop_isolating(store, nid, Tail(rels), now, created, updated, 0)
    ELSE LET r == create_or_update_edge(store, nid, Head(rels), now)
         IN ApplyLoop_isolating(r.edges, r.nextId, Tail(rels), now,
                                IF r.ret THEN created ELSE created + 1,
                                IF r.ret THEN updated + 1 ELSE updated,
                                IF fail_at = 0 THEN 0 ELSE fail_at - 1)

\* for rel in filtered: was_updated = create_or_update_edge(rel); count
\* The loop has no try/except: a call that raises ends it (raised = TRUE)
\* with the store as the earlier calls left it.
RECURSIVE ApplyLoop(_, _, _, _, _, _, _)
ApplyLoop(store, nid, rels, now, created, updated, fail_at) ==
    IF rels = <<>>
    THEN [edges |-> store, nextId |-> nid, edges_created |-> created,
          edges_updated |-> updated, raised |-> FALSE]
    ELSE IF fail_at = 1
    THEN [edges |-> store, nextId |-> nid, edges_created |-> created,
          edges_updated |-> updated, raised |-> TRUE]
    ELSE LET r == create_or_update_edge(store, nid, Head(rels), now)
         IN ApplyLoop(r.edges, r.nextId, Tail(rels), now,
                      IF r.ret THEN created ELSE created + 1,
                      IF r.ret THEN updated + 1 ELSE updated,
                      IF fail_at = 0 THEN 0 ELSE fail_at - 1)

\* What a run that raised leaves behind: no result, the store as it was when
\* the exception left the loop.
Raised(r, trace) ==
    [edges |-> r.edges, nextId |-> r.nextId, result |-> [error |-> "Exception"],
     trace |-> trace, raised |-> TRUE]

Calls(name, n) == [i \in 1..n |-> name]

StrategyNames(strategies) == [i \in 1..Len(strategies) |-> strategies[i].name]

\* The cheap strategies of run_incremental, run on the event's entities
\* followed by the recent entities.
IncrementalStrategies(ents, ev_entities, response) ==
    LET existing_entities == get_recent_entities(ents, RecentLimit)
        all_entities == EntityDicts(ev_entities \o existing_entities)
    IN << [name |-> "pattern_based",
           relationships |-> strategy_pattern_based(all_entities)],
          [name |-> "semantic_llm",
           relationships |-> strategy_semantic_llm(all_entities, response)] >>

\* Mutant: the Incremental run ends with the decay and prune steps of the
\* Nightly run.
IncrementalOn_consolidating(store, nid, ents, ev_entities, event_id, response, now, faults) ==
    LET strategies == IncrementalStrategies(ents, ev_entities, response)
        todo == Surviving(strategies, event_id)
        r == ApplyLoop(store, nid, todo, now, 0, 0, faults.fail_at)
    IN [edges |-> prune_weak_edges(apply_global_decay(r.edges, NightlyDecay, now).edges,
                                   NightlyPrune).edges,
        nextId |-> r.nextId,
        result |-> [edges_created |-> r.edges_created,
                    edges_updated |-> r.edges_updated,
                    strategies_used |-> StrategyNames(strategies)],
        trace |-> StrategyNames(strategies) \o Calls("create_or_update_edge", Len(todo)),
        raised |-> r.raised]

\* run_incremental from the point where the event has two or more entities.
IncrementalOn(store, nid, ents, ev_entities, event_id, response, now, faults) ==
    LET strategies == IncrementalStrategies(ents, ev_entities, response)
        todo == Surviving(strategies, event_id)
        r == ApplyLoop(store, nid, todo, now, 0, 0, faults.fail_at)
    IN IF r.raised
       THEN Raised(r, StrategyNames(strategies)
                        \o Calls("create_or_update_edge",
                                 r.edges_created + r.edges_updated + 1))
       ELSE [edges |-> r.edges, nextId |-> r.nextId,
             result |-> [edges_created |-> r.edges_created,
                         edges_updated |-> r.edges_updated,
                         strategies_used |-> StrategyNames(strategies)],
             trace |-> StrategyNames(strategies)
                         \o Calls("create_or_update_edge", Len(todo)),
             raised |-> FALSE]

NoOpResult(store, nid) ==
    [edges |-> store, nextId |-> nid,
     result |-> [edges_created |-> 0, edges_updated |-> 0, strategies_used |-> <<>>],
     trace |-> <<>>, raised |-> FALSE]

\* Mutant: the early return is taken only for an event without entities.
run_incremental_min1(store, nid, ents, event_id, response, now, faults) ==
    LET ev_entities == get_entities_by_event(ents, event_id)
    IN IF Len(ev_entities) < 1 THEN NoOpResult(store, nid)
       ELSE IncrementalOn(store, nid, ents, ev_entities, event_id, response, now, faults)

run_incremental(store, nid, ents, event_id, response, now, faults) ==
    LET ev_entities == get_entities_by_event(ents, event_id)
    IN IF Len(ev_entities) < 2 THEN NoOpResult(store, nid)
       ELSE IncrementalOn(store, nid, ents, ev_entities, event_id, response, now, faults)

\* Mutant: one error boundary around all five strategy calls - when the
\* language model call raises, no strategy contributes.
NightlyStrategies_one_boundary(store, entity_dicts, response, service_ok, faults) ==
    << [name |-> "pattern_based",
        relationships |-> IF response.status # "ok" THEN <<>>
                          ELSE strategy_pattern_based(entity_dicts)],
       [name |-> "semantic_llm",
        relationships |-> strategy_semantic_llm(entity_dicts, response)],
       [name |-> "embedding_similarity",
        relationships |-> IF response.status # "ok" THEN <<>>
                          ELSE strategy_embedding_similarity(entity_dicts, service_ok)],
       [name |-> "temporal",
        relationships |-> IF response.status # "ok" THEN <<>>
                          ELSE strategy_temporal(entity_dicts)],
       [name |-> "graph_topology",
        relationships |-> IF response.status # "ok" THEN <<>>
                          ELSE strategy_graph_topology(store,
                                   [i \in 1..Len(entity_dicts) |-> entity_dicts[i].id],
                                   faults.reads_ok)] >>

NightlyStrategies(store, entity_dicts, response, service_ok, faults) ==
    << [name |-> "pattern_based",
        relationships |-> strategy_pattern_based(entity_dicts)],
       [name |-> "semantic_llm",
        relationships |-> strategy_semantic_llm(entity_dicts, response)],
       [name |-> "embedding_similarity",
        relationships |-> strategy_embedding_similarity(entity_dicts, service_ok)],
       [name |-> "temporal",
        relationships |-> strategy_temporal(entity_dicts)],
       [name |-> "graph_topology",
        relationships |-> strategy_graph_topology(store,
                              [i \in 1..Len(entity_dicts) |-> entity_dicts[i].id],
                              faults.reads_ok)] >>

\* Mutant: pruning runs before decay.
NightlyApply_prune_first(store, nid, strategies, n_entities, now, faults) ==
    LET todo == Surviving(strategies, "None")
        r == ApplyLoop(store, nid, todo, now, 0, 0, faults.fail_at)
        pruned == prune_weak_edges(r.edges, NightlyPrune)
        decayed == apply_global_decay(pruned.edges, NightlyDecay, now)
    IN IF r.raised
       THEN Raised(r, StrategyNames(strategies)
                        \o Calls("create_or_update_edge",
                                 r.edges_created + r.edges_updated + 1))
       ELSE [edges |-> decayed.edges, nextId |-> r.nextId,
             result |-> [edges_created |-> r.edges_created,
                         edges_updated |-> r.edges_updated,
                         edges_pruned |-> pruned.ret,
                         entities_analyzed |-> n_entities],
             trace |-> StrategyNames(strategies)
                         \o Calls("create_or_update_edge", Len(todo))
                         \o <<"prune_weak_edges", "apply_global_decay">>,
             raised |-> FALSE]

\* run_nightly once the strategies have returned: the reinforcement loop,
\* then decay, then prune.
NightlyApply(store, nid, strategies, n_entities, now, faults) ==
    LET todo == Surviving(strategies, "None")
        r == ApplyLoop(store, nid, todo, now, 0, 0, faults.fail_at)
        decayed == apply_global_decay(r.edges, NightlyDecay, now)
        pruned == prune_weak_edges(decayed.edges, NightlyPrune)
    IN IF r.raised
       THEN Raised(r, StrategyNames(strategies)
                        \o Calls("create_or_update_edge",
                                 r.edges_created + r.edges_updated + 1))
       ELSE [edges |-> pruned.edges, nextId |-> r.nextId,
             result |-> [edges_created |-> r.edges_created,
                         edges_updated |-> r.edges_updated,
                         edges_pruned |-> pruned.ret,
                         entities_analyzed |-> n_entities],
             trace |-> StrategyNames(strategies)
                         \o Calls("create_or_update_edge", Len(todo))
                         \o <<"apply_global_decay", "prune_weak_edges">>,
             raised |-> FALSE]

\* Mutant: the proposals of the first four strategies are applied before the
\* graph-topology strategy walks the store.
NightlyOn_interleaved(store, nid, scope, response, service_ok, now, faults) ==
    NightlyApply(store, nid,
                 NightlyStrategies(
                     ApplyLoop(store, nid,
                               Surviving(SubSeq(NightlyStrategies(store, EntityDicts(scope),
                                                                  response, service_ok, faults),
                                                1, 4), "None"),
                               now, 0, 0, 0).edges,
                     EntityDicts(scope), response, service_ok, faults),
                 Len(scope), now, faults)

\* run_nightly from the point where the scope has been selected.
NightlyOn(store, nid, scope, response, service_ok, now, faults) ==
    NightlyApply(store, nid,
                 NightlyStrategies(store, EntityDicts(scope), response, service_ok, faults),
                 Len(scope), now, faults)

run_nightly(store, nid, ents, full_scan, response, service_ok, now, faults) ==
    NightlyOn(store, nid,
              IF full_scan THEN get_all_entities(ents)
              ELSE get_entities_created_since(ents, WallNow - NightlyWindowHours),
              response, service_ok, now, faults)

\* for eid in entity_ids: get_entity_by_id(eid), None filtered out
RECURSIVE LookupAll(_, _)
LookupAll(ents, entity_ids) ==
    IF entity_ids = <<>> THEN <<>>
    ELSE get_entity_by_id(ents, Head(entity_ids)) \o LookupAll(ents, Tail(entity_ids))

\* Mutant: the strategies analyze only the requested entities.
run_on_demand_scoped(store, nid, ents, entity_ids, response, service_ok, now, faults) ==
    NightlyOn(store, nid,
              IF entity_ids # <<>> THEN LookupAll(ents, entity_ids) ELSE get_all_entities(ents),
              response, service_ok, now, faults)

\* The entities looked up from entity_ids are only counted for the log line.
run_on_demand(store, nid, ents, entity_ids, response, service_ok, now, faults) ==
    LET looked_up == IF entity_ids # <<>> THEN LookupAll(ents, entity_ids)
                     ELSE get_all_entities(ents)
    IN run_nightly(store, nid, ents, TRUE, response, service_ok, now, faults)

(* ----------------------------- trigger layer -------------------------- *)
\* escaped: an exception left the function; raised: the engine run r raised.
\* The job's try branch returns the engine's result, its except branch the
\* error record.
JobOutcome(r) ==
    [edges |-> r.edges, nextId |-> r.nextId,
     ret |-> IF r.raised THEN [status |-> "error", error |-> r.result.error]
             ELSE r.result,
     escaped |-> FALSE, raised |-> r.raised, trace |-> r.trace]

JobOutcome_unguarded(r) ==
    [edges |-> r.edges, nextId |-> r.nextId, ret |-> r.result,
     escaped |-> r.raised, raised |-> r.raised, trace |-> r.trace]

\* Mutant: the job has no try/except.
run_nightly_consolidation_unguarded(store, nid, ents, response, service_ok, now, faults) ==
    JobOutcome_unguarded(run_nightly(store, nid, ents, FALSE, response, service_ok, now,
                                     faults))

\* schedulers/nightly_consolidation.py: run_nightly(full_scan=False) inside
\* try/except Exception.
run_nightly_consolidation(store, nid, ents, response, service_ok, now, faults) ==
    JobOutcome(run_nightly(store, nid, ents, FALSE, response, service_ok, now, faults))

\* The steps of Archivist.process_event that follow relationship detection.
LaterSteps == <<"detect_alias_and_update", "chunk_text", "create_signal",
                "update_event_status">>

\* Steps 7 to 11 run whether or not the Incremental run r raised.
EventOutcome(event_id, r) ==
    [edges |-> r.edges, nextId |-> r.nextId,
     ret |-> [event_id |-> event_id, status |-> "success"],
     escaped |-> FALSE, raised |-> r.raised,
     trace |-> r.trace \o LaterSteps]

\* agents/archivist.py, process_event from step 6 on: run_incremental inside
\* its own try/except when the event has entities, then steps 7 to 11.
process_event(store, nid, ents, event_id, response, now, faults) ==
    EventOutcome(event_id,
                 IF get_entities_by_event(ents, event_id) # <<>>
                 THEN run_incremental(store, nid, ents, event_id, response, now, faults)
                 ELSE NoOpResult(store, nid))

(* -------------------------------- inputs ------------------------------ *)
LlmDesc == Desc("from the language model", <<>>, <<>>, <<>>)

RespRaise == [status |-> "raise", relationships |-> <<>>]

RespOne ==
    [status |-> "ok",
     relationships |->
        << [from_entity_id |-> 0, to_entity_id |-> 1, relationship_type |-> "works_with",
            confidence |-> 80, importance |-> 70, description |-> LlmDesc,
            start_date |-> NoDate, end_date |-> NoDate] >>]

RespMixed ==
    [status |-> "ok",
     relationships |->
        << [from_entity_id |-> 1, to_entity_id |-> 0, relationship_type |-> "employs",
            confidence |-> 30, importance |-> 70, description |-> LlmDesc,
            start_date |-> NoDate, end_date |-> NoDate],
           [from_entity_id |-> 0, to_entity_id |-> 99, relationship_type |-> "knows",
            confidence |-> 90, importance |-> 70, description |-> LlmDesc,
            start_date |-> NoDate, end_date |-> NoDate],
           [from_entity_id |-> 1, to_entity_id |-> 2, relationship_type |-> "knows",
            confidence |-> 50, importance |-> 70, description |-> LlmDesc,
            start_date |-> NoDate, end_date |-> NoDate],
           [from_entity_id |-> 2, to_entity_id |-> 1, relationship_type |-> "mentors",
            importance |-> 70, description |-> LlmDesc,
            start_date |-> NoDate, end_date |-> NoDate] >>]

Responses == {RespRaise, RespOne, RespMixed}

TestDesc == Desc("Test edge", <<>>, <<>>, <<>>)

PropA(confidence) ==
    [from_id |-> "r1", to_id |-> "o1", kind |-> "role_at", confidence |-> confidence,
     importance |-> 70, description |-> TestDesc, start_date |-> NoDate,
     end_date |-> NoDate, metadata |-> EmptyDict]

PropB(confidence, event_id) ==
    [from_id |-> "p1", to_id |-> "r1", kind |-> "works_with", confidence |-> confidence,
     importance |-> 40, description |-> TestDesc, start_date |-> <<2021>>,
     end_date |-> NoDate, metadata |-> [source_event_id |-> event_id, note |-> "b"]]

PropC == [from_id |-> "o1", to_id |-> "p1", kind |-> "employs", confidence |-> 60]

DirectProposals == {PropA(60), PropA(90), PropB(80, "ev1"), PropB(70, "ev2"), PropC}

Half == [n |-> 1, d |-> 2]

DecayFactors == {[n |-> 9, d |-> 10], Half}

PruneThresholds == {Half, [n |-> 3, d |-> 2], [n |-> 5, d |-> 2]}

EntityIdLists == {<<>>, <<"r1", "zz">>}

\* A store with weights 2.0, 1.5 and 0.5, as the engine itself builds it.
RECURSIVE CallsFrom(_, _, _)
CallsFrom(store, nid, rels) ==
    IF rels = <<>> THEN [edges |-> store, nextId |-> nid]
    ELSE LET r == create_or_update_edge(store, nid, Head(rels), 0)
         IN CallsFrom(r.edges, r.nextId, Tail(rels))

SeedStore ==
    LET s1 == CallsFrom({}, 1, <<PropA(60), PropA(60), PropA(60), PropA(60),
                                 PropB(80, "ev1"), PropC>>)
        s2 == apply_global_decay(s1.edges, Half, 0)
    IN CallsFrom(s2.edges, s1.nextId, <<PropB(80, "ev1")>>)

\* The same store after apply_global_decay(0.2): weights 0.4, 0.3 and 0.1.
WeakStore ==
    [edges |-> apply_global_decay(SeedStore.edges, [n |-> 1, d |-> 5], 0).edges,
     nextId |-> SeedStore.nextId]

EmptyStore == [edges |-> {}, nextId |-> 1]

MaxFailAt == 2

Faults == [reads_ok : BOOLEAN, fail_at : 0..MaxFailAt]

Stores == {EmptyStore, SeedStore, WeakStore}

FilterConfidences == {30, 50, 60, 90}

FilterProposals ==
    {[from_id |-> "a", to_id |-> "b", kind |-> "test", confidence |-> c] :
        c \in FilterConfidences}
    \cup {[from_id |-> "a", to_id |-> "b", kind |-> "test"]}

RECURSIVE SeqsUpTo(_, _)
SeqsUpTo(S, n) ==
    IF n = 0 THEN {<<>>}
    ELSE SeqsUpTo(S, n - 1)
         \cup {Append(q, x) : q \in {t \in SeqsUpTo(S, n - 1) : Len(t) = n - 1}, x \in S}

(* ------------------- specification of the run modes ------------------- *)
\* Runs execute one at a time: each run is one step.
Workers == {1, 2}

NoLast == [op |-> "none", pre |-> {}, preId |-> 0, trace |-> <<>>]

Idle == [w \in Workers |-> "idle"]

NoLoc == [w \in Workers |-> EmptyDict]

Init ==
    /\ \E s \in Stores :
           /\ edges = s.edges
           /\ nextId = s.nextId
           /\ history = [seeded |-> s.edges # {}, log |-> <<>>, pruned |-> {}]
    /\ entities = World
    /\ clock = 0
    /\ decays = 0
    /\ last = NoLast
    /\ input = <<>>
    /\ pc = Idle
    /\ loc = NoLoc

Finish(r, op, arg) ==
    /\ edges' = r.edges
    /\ clock' = clock + 1
    /\ last' = [op |-> op, arg |-> arg, ret |-> r.ret, pre |-> edges, preId |-> nextId,
                trace |-> r.trace]
    /\ UNCHANGED <<entities, input, pc, loc>>

RunIncremental(event_id, response) ==
    /\ clock < MaxRuns
    /\ \E r \in {run_incremental(edges, nextId, entities, event_id, response, clock + 1,
                                  NoFaults)} :
          /\ Finish([edges |-> r.edges, ret |-> r.result, trace |-> r.trace],
                    "run_incremental", [event_id |-> event_id, response |-> response])
          /\ nextId' = r.nextId
    /\ UNCHANGED <<decays, history>>

RunNightly(full_scan, response, service_ok) ==
    /\ clock < MaxRuns
    /\ decays < MaxDecays
    /\ \E r \in {run_nightly(edges, nextId, entities, full_scan, response, service_ok,
                              clock + 1, NoFaults)} :
          /\ Finish([edges |-> r.edges, ret |-> r.result, trace |-> r.trace],
                    "run_nightly",
                    [full_scan |-> full_scan, response |-> response, service_ok |-> service_ok])
          /\ nextId' = r.nextId
    /\ decays' = decays + 1
    /\ UNCHANGED history

RunOnDemand(entity_ids, response, service_ok) ==
    /\ clock < MaxRuns
    /\ decays < MaxDecays
    /\ \E r \in {run_on_demand(edges, nextId, entities, entity_ids, response, service_ok,
                                clock + 1, NoFaults)} :
          /\ Finish([edges |-> r.edges, ret |-> r.result, trace |-> r.trace],
                    "run_on_demand",
                    [entity_ids |-> entity_ids, response |-> response,
                     service_ok |-> service_ok])
          /\ nextId' = r.nextId
    /\ decays' = decays + 1
    /\ UNCHANGED history

Next ==
    \/ \E event_id \in EventIds, response \in Responses : RunIncremental(event_id, response)
    \/ \E full_scan \in BOOLEAN, response \in Responses, service_ok \in BOOLEAN :
           RunNightly(full_scan, response, service_ok)
    \/ \E entity_ids \in EntityIdLists, response \in Responses, service_ok \in BOOLEAN :
           RunOnDemand(entity_ids, response, service_ok)

Spec == Init /\ [][Next]_vars

(* ------------- specification of the edge-management calls ------------- *)
\* Direct, sequential calls of create_or_update_edge, prune_weak_edges and
\* apply_global_decay, as the unit tests make them.
TripleOf(x) == <<x.from_id, x.to_id, x.kind>>

Logged(entry) == history' = [history EXCEPT !.log = Append(@, entry)]

CreateOrUpdateEdge(rel) ==
    /\ clock < MaxCalls
    /\ \E r \in {create_or_update_edge(edges, nextId, rel, clock + 1)} :
          /\ Finish([edges |-> r.edges, ret |-> r.ret, trace |-> <<>>],
                    "create_or_update_edge", [relationship |-> rel])
          /\ nextId' = r.nextId
          /\ Logged([call |-> "create_or_update_edge", triple |-> TripleOf(rel),
                     confidence |-> Get(rel, "confidence", NoneNum), ret |-> r.ret])
    /\ UNCHANGED decays

PruneWeakEdges(threshold) ==
    /\ clock < MaxCalls
    /\ \E r \in {prune_weak_edges(edges, threshold)} :
          /\ Finish([edges |-> r.edges, ret |-> r.ret, trace |-> <<>>],
                    "prune_weak_edges", [threshold |-> threshold])
          /\ history' = [history EXCEPT
                             !.log = Append(@, [call |-> "prune_weak_edges"]),
                             !.pruned = @ \cup (edges \ r.edges)]
    /\ UNCHANGED <<nextId, decays>>

ApplyGlobalDecay(decay_factor) ==
    /\ clock < MaxCalls
    /\ decays < MaxDecays
    /\ \E r \in {apply_global_decay(edges, decay_factor, clock + 1)} :
          /\ Finish([edges |-> r.edges, ret |-> r.ret, trace |-> <<>>],
                    "apply_global_decay", [decay_factor |-> decay_factor])
          /\ Logged([call |-> "apply_global_decay"])
    /\ decays' = decays + 1
    /\ UNCHANGED nextId

NextEdges ==
    \/ \E rel \in DirectProposals : CreateOrUpdateEdge(rel)
    \/ \E threshold \in PruneThresholds : PruneWeakEdges(threshold)
    \/ \E decay_factor \in DecayFactors : ApplyGlobalDecay(decay_factor)

SpecEdges == Init /\ [][NextEdges]_vars

(* ---------------- specification of the confidence filter -------------- *)
InitFilter ==
    /\ input \in SeqsUpTo(FilterProposals, MaxLen)
    /\ edges = {}
    /\ nextId = 1
    /\ history = [seeded |-> FALSE, log |-> <<>>, pruned |-> {}]
    /\ entities = World
    /\ clock = 0
    /\ decays = 0
    /\ last = NoLast
    /\ pc = Idle
    /\ loc = NoLoc

FilterByConfidence ==
    /\ last.op = "none"
    /\ last' = [op |-> "_filter_by_confidence", arg |-> [relationships |-> input],
                ret |-> _filter_by_confidence(input), pre |-> edges, preId |-> nextId,
                trace |-> <<>>]
    /\ UNCHANGED <<edges, nextId, entities, clock, decays, history, input, pc, loc>>

NextFilter == FilterByConfidence

SpecFilter == InitFilter /\ [][NextFilter]_vars

(* --------------- specification of concurrent Incremental runs --------- *)
\* Two Incremental runs (one per worker) execute concurrently.  The store
\* calls are the atomic steps: inside create_or_update_edge the lookup and
\* the update or insert that follows it are two steps, and steps of the other
\* run can come between them.
\* Per run: mode, the proposals still to process, the edge the last lookup
\* returned, the rows apply_global_decay read and has not written yet; and for
\* the properties, the triples the run inserted, the ids of the edges it
\* reinforced (one entry per completed reinforcement) and decayed.
IdleLoc ==
    [w \in Workers |-> [mode |-> "incremental", todo |-> <<>>, found |-> {},
                        snapshot |-> <<>>, inserted |-> {}, reinforced |-> <<>>,
                        decayed |-> {}]]

\* Where a run goes when its reinforcement loop has ended.
AfterLoop(w) == IF loc[w].mode = "nightly" THEN "decay" ELSE "done"

InitConc ==
    /\ \E s \in Stores :
           /\ edges = s.edges
           /\ nextId = s.nextId
           /\ history = [seeded |-> s.edges # {}, log |-> <<>>, pruned |-> {}]
    /\ entities = World
    /\ clock = 0
    /\ decays = 0
    /\ last = NoLast
    /\ input = <<>>
    /\ pc = Idle
    /\ loc = IdleLoc

\* run_incremental up to the reinforcement loop: the early return, or the
\* strategies and the filter.
IncStart(w, event_id, response) ==
    /\ pc[w] = "idle"
    /\ \E ev_entities \in {get_entities_by_event(entities, event_id)} :
       \E todo \in {IF Len(ev_entities) < 2 THEN <<>>
                    ELSE Surviving(IncrementalStrategies(entities, ev_entities, response),
                                   event_id)} :
          /\ loc' = [loc EXCEPT ![w].todo = todo]
          /\ pc' = [pc EXCEPT ![w] = IF todo = <<>> THEN "done" ELSE "lookup"]
    /\ UNCHANGED <<edges, nextId, entities, clock, decays, last, history, input>>

\* run_nightly up to the reinforcement loop: scope, the five strategies and
\* the filter.
NightlyStart(w, full_scan, response, service_ok) ==
    /\ pc[w] = "idle"
    /\ \E scope \in {IF full_scan THEN get_all_entities(entities)
                     ELSE get_entities_created_since(entities,
                                                     WallNow - NightlyWindowHours)} :
       \E todo \in {Surviving(NightlyStrategies(edges, EntityDicts(scope), response,
                                                service_ok, NoFaults), "None")} :
          /\ loc' = [loc EXCEPT ![w].todo = todo, ![w].mode = "nightly"]
          /\ pc' = [pc EXCEPT ![w] = IF todo = <<>> THEN "decay" ELSE "lookup"]
    /\ UNCHANGED <<edges, nextId, entities, clock, decays, last, history, input>>

\* existing_edge = self.db.get_edge_by_from_to_kind(from_id, to_id, kind)
Lookup(w) ==
    /\ pc[w] = "lookup"
    /\ LET rel == Head(loc[w].todo)
           M == Matching(edges, rel.from_id, rel.to_id, rel.kind)
       IN \/ /\ M = {}
             /\ loc' = [loc EXCEPT ![w].found = {}]
          \/ \E e \in M : loc' = [loc EXCEPT ![w].found = {e}]
    /\ pc' = [pc EXCEPT ![w] = "write"]
    /\ UNCHANGED <<edges, nextId, entities, clock, decays, last, history, input>>

\* The branch create_or_update_edge takes on the edge it looked up: update_edge
\* with fields computed from that edge, or create_edge.
Write(w) ==
    /\ pc[w] = "write"
    /\ LET rel == Head(loc[w].todo)
           rest == Tail(loc[w].todo)
       IN /\ IF loc[w].found # {}
             THEN /\ \E existing_edge \in loc[w].found :
                        edges' = update_edge(edges, existing_edge.id,
                                             ReinforceFields(existing_edge, rel, clock + 1))
                  /\ nextId' = nextId
                  /\ loc' = [loc EXCEPT ![w].todo = rest, ![w].found = {},
                                        ![w].reinforced =
                                            Append(@, (CHOOSE e \in loc[w].found : TRUE).id)]
             ELSE /\ edges' = create_edge(edges, nextId, NewEdgeData(rel, clock + 1),
                                          clock + 1)
                  /\ nextId' = nextId + 1
                  /\ loc' = [loc EXCEPT ![w].todo = rest, ![w].found = {},
                                        ![w].inserted = @ \cup {TripleOf(rel)}]
          /\ pc' = [pc EXCEPT ![w] = IF rest = <<>> THEN AfterLoop(w) ELSE "lookup"]
    /\ clock' = clock + 1
    /\ UNCHANGED <<entities, decays, last, history, input>>

\* apply_global_decay(0.99): edges = self.db.get_all_edges()
DecayRead(w) ==
    /\ pc[w] = "decay"
    /\ \E all \in {get_all_edges(edges)} :
          /\ loc' = [loc EXCEPT ![w].snapshot = all]
          /\ pc' = [pc EXCEPT ![w] = IF all = <<>> THEN "prune" ELSE "decay_write"]
    /\ UNCHANGED <<edges, nextId, entities, clock, decays, last, history, input>>

\* One pass of the decay loop: update_edge(edge.id, weight * decay_factor),
\* the weight being the one read by get_all_edges.
DecayWrite(w) ==
    /\ pc[w] = "decay_write"
    /\ LET edge == Head(loc[w].snapshot)
           rest == Tail(loc[w].snapshot)
       IN /\ edges' = update_edge(edges, edge.id,
                                  [weight |-> RatMul(edge.weight, NightlyDecay),
                                   updated_at |-> clock + 1])
          /\ loc' = [loc EXCEPT ![w].snapshot = rest, ![w].decayed = @ \cup {edge.id}]
          /\ pc' = [pc EXCEPT ![w] = IF rest = <<>> THEN "prune" ELSE "decay_write"]
    /\ UNCHANGED <<nextId, entities, clock, decays, last, history, input>>

\* prune_weak_edges(0.1), the last step of run_nightly.
Prune(w) ==
    /\ pc[w] = "prune"
    /\ edges' = prune_weak_edges(edges, NightlyPrune).edges
    /\ pc' = [pc EXCEPT ![w] = "done"]
    /\ UNCHANGED <<nextId, entities, clock, decays, last, history, input, loc>>

NextConc ==
    \/ \E w \in Workers, event_id \in EventIds, response \in Responses :
           IncStart(w, event_id, response)
    \/ \E w \in Workers : Lookup(w)
    \/ \E w \in Workers : Write(w)

SpecConc == InitConc /\ [][NextConc]_vars

\* Overlapping runs of any mode: nothing in the engine, the scheduler or the
\* triggers keeps a Nightly or On-Demand run from starting while another run
\* is active.
OverlapResponses == {RespRaise}

\* The scheduler's and the CLI's default: run_nightly(full_scan=False).
OverlapScans == {FALSE}

NextOverlap ==
    \/ \E w \in Workers, response \in OverlapResponses : IncStart(w, "ev1", response)
    \/ \E w \in Workers, full_scan \in OverlapScans, response \in OverlapResponses :
           NightlyStart(w, full_scan, response, FALSE)
    \/ \E w \in Workers : Lookup(w)
    \/ \E w \in Workers : Write(w)
    \/ \E w \in Workers : DecayRead(w)
    \/ \E w \in Workers : DecayWrite(w)
    \/ \E w \in Workers : Prune(w)

\* As InitConc; last.pre keeps the store the runs start from.
InitOverlap ==
    /\ \E s \in Stores :
           /\ edges = s.edges
           /\ nextId = s.nextId
           /\ history = [seeded |-> s.edges # {}, log |-> <<>>, pruned |-> {}]
           /\ last = [NoLast EXCEPT !.pre = s.edges, !.preId = s.nextId]
    /\ entities = World
    /\ clock = 0
    /\ decays = 0
    /\ input = <<>>
    /\ pc = Idle
    /\ loc = IdleLoc

SpecOverlap == InitOverlap /\ [][NextOverlap]_vars

(* ------------- specification of runs under external failures ---------- *)
\* One engine run or one trigger at a time, with the failures the run can
\* meet: the language model call, the embeddings service, the store reads of
\* the topology walk, and the store call of a create_or_update_edge.
FinishFaulty(r, op, arg, ret, escaped) ==
    /\ edges' = r.edges
    /\ nextId' = r.nextId
    /\ clock' = clock + 1
    /\ last' = [op |-> op, arg |-> arg, ret |-> ret, pre |-> edges, preId |-> nextId,
                trace |-> r.trace, raised |-> r.raised, escaped |-> escaped]
    /\ UNCHANGED <<entities, history, input, pc, loc>>

EngineRunIncremental(event_id, response, faults) ==
    /\ clock < MaxFaultyRuns
    /\ \E r \in {run_incremental(edges, nextId, entities, event_id, response, clock + 1,
                                  faults)} :
          FinishFaulty(r, "run_incremental",
                       [event_id |-> event_id, response |-> response, faults |-> faults],
                       r.result, r.raised)
    /\ UNCHANGED decays

EngineRunNightly(full_scan, response, service_ok, faults) ==
    /\ clock < MaxFaultyRuns
    /\ \E r \in {run_nightly(edges, nextId, entities, full_scan, response, service_ok,
                              clock + 1, faults)} :
          FinishFaulty(r, "run_nightly",
                       [full_scan |-> full_scan, response |-> response,
                        service_ok |-> service_ok, faults |-> faults],
                       r.result, r.raised)
    /\ decays' = decays + 1

RunNightlyConsolidation(response, service_ok, faults) ==
    /\ clock < MaxFaultyRuns
    /\ \E r \in {run_nightly_consolidation(edges, nextId, entities, response, service_ok,
                                            clock + 1, faults)} :
          FinishFaulty(r, "run_nightly_consolidation",
                       [response |-> response, service_ok |-> service_ok,
                        faults |-> faults],
                       r.ret, r.escaped)
    /\ decays' = decays + 1

ProcessEvent(event_id, response, faults) ==
    /\ clock < MaxFaultyRuns
    /\ \E r \in {process_event(edges, nextId, entities, event_id, response, clock + 1,
                                faults)} :
          FinishFaulty(r, "process_event",
                       [event_id |-> event_id, response |-> response, faults |-> faults],
                       r.ret, r.escaped)
    /\ UNCHANGED decays

NextFaults ==
    \/ \E event_id \in EventIds, response \in Responses, faults \in Faults :
           EngineRunIncremental(event_id, response, faults)
    \/ \E full_scan \in BOOLEAN, response \in Responses, service_ok \in BOOLEAN,
          faults \in Faults :
           EngineRunNightly(full_scan, response, service_ok, faults)
    \/ \E response \in Responses, service_ok \in BOOLEAN, faults \in Faults :
           RunNightlyConsolidation(response, service_ok, faults)
    \/ \E event_id \in EventIds, response \in Responses, faults \in Faults :
           ProcessEvent(event_id, response, faults)

SpecFaults == Init /\ [][NextFaults]_vars

(* -------------- specification of the pattern-based strategy ----------- *)
\* strategy_pattern_based applied once to a list of distinct entity dicts.
MaxEntities == 3

Chars_X == <<"X">>
Chars_Beta == <<"B", "e", "t", "a">>
Chars_at(org) == <<" ", "a", "t", " ">> \o org
Chars_comma(rest) == <<",", " ">> \o rest

PatternEntity(id, type, title) ==
    [id |-> id, title |-> title, type |-> type, summary |-> "None", metadata |-> EmptyDict]

PatternEntities ==
    { PatternEntity("ra", "role", Chars_X \o Chars_at(T_Acme)),
      PatternEntity("rb", "role", Chars_X \o Chars_comma(T_Acme \o Chars_at(Chars_Beta))),
      PatternEntity("rc", "role", Chars_X \o Chars_comma(T_Acme \o Chars_at(<<"Z", "e", "d">>))),
      PatternEntity("rd", "role", Chars_X \o Chars_comma(<<"b", "e", "t", "a", " ", "(", "y", ")">>)),
      PatternEntity("re", "role", Chars_X),
      PatternEntity("oa", "organization", T_Acme),
      PatternEntity("ob", "organization", Chars_Beta),
      PatternEntity("oc", "organization", <<"A", "C", "M", "E", " ", "C", "o">>),
      PatternEntity("pa", "person", T_Ann) }

Distinct(q) == \A i, j \in 1..Len(q) : i # j => q[i].id # q[j].id

InitPattern ==
    /\ input \in {q \in SeqsUpTo(PatternEntities, MaxEntities) : Distinct(q)}
    /\ edges = {}
    /\ nextId = 1
    /\ history = [seeded |-> FALSE, log |-> <<>>, pruned |-> {}]
    /\ entities = World
    /\ clock = 0
    /\ decays = 0
    /\ last = NoLast
    /\ pc = Idle
    /\ loc = NoLoc

StrategyPatternBased ==
    /\ last.op = "none"
    /\ last' = [op |-> "strategy_pattern_based", arg |-> [entities |-> input],
                ret |-> strategy_pattern_based(input), pre |-> edges, preId |-> nextId,
                trace |-> <<>>]
    /\ UNCHANGED <<edges, nextId, entities, clock, decays, history, input, pc, loc>>

NextPattern == StrategyPatternBased

SpecPattern == InitPattern /\ [][NextPattern]_vars

(* ---------------- specification of the temporal strategy --------------- *)
\* strategy_temporal applied once to a list of entity dicts whose metadata
\* carries a start_date and an end_date drawn from the sets below: absent, a
\* full date, a year only, or a string no format parses.
MaxTemporal == 2

StartDates == {NoDate, <<2020, 1, 1>>, <<2021, 6, 1>>, <<2023>>, <<2021, 13>>}

EndDates == {NoDate, <<2021, 8, 30>>, <<2021, 12, 31>>, <<2022, 6, 1>>, <<2022, 12, 31>>}

TemporalIds == <<"ta", "tb", "tc", "td">>

TemporalEntity(id, start_date, end_date) ==
    [id |-> id, title |-> <<>>, type |-> "project", summary |-> "None",
     metadata |-> [start_date |-> start_date, end_date |-> end_date]]

TemporalInputs ==
    UNION {[1..n -> StartDates \X EndDates] : n \in 0..MaxTemporal}

InitTemporal ==
    /\ \E dates \in TemporalInputs :
           input = [i \in 1..Len(dates) |->
                       TemporalEntity(TemporalIds[i], dates[i][1], dates[i][2])]
    /\ edges = {}
    /\ nextId = 1
    /\ history = [seeded |-> FALSE, log |-> <<>>, pruned |-> {}]
    /\ entities = World
    /\ clock = 0
    /\ decays = 0
    /\ last = NoLast
    /\ pc = Idle
    /\ loc = NoLoc

StrategyTemporal ==
    /\ last.op = "none"
    /\ last' = [op |-> "strategy_temporal", arg |-> [entities |-> input],
                ret |-> strategy_temporal(input), pre |-> edges, preId |-> nextId,
                trace |-> <<>>]
    /\ UNCHANGED <<edges, nextId, entities, clock, decays, history, input, pc, loc>>

NextTemporal == StrategyTemporal

SpecTemporal == InitTemporal /\ [][NextTemporal]_vars

(* ------------- specification of the graph-topology strategy ----------- *)
\* strategy_graph_topology applied, any number of times, to lists of entity
\* ids over a store that holds any subset of the edges below.
TopologyEdge(from_id, to_id, kind) ==
    [from_id |-> from_id, to_id |-> to_id, kind |-> kind, confidence |-> 60]

TopologyEdges ==
    << TopologyEdge("A", "B", "x"), TopologyEdge("A", "B", "x2"),
       TopologyEdge("B", "C", "y"), TopologyEdge("B", "A", "v"),
       TopologyEdge("A", "C", "z"), TopologyEdge("A", "C", "inferred_connection") >>

TopologyStores ==
    {LET In(rel) == rel \in chosen
     IN CallsFrom({}, 1, SelectSeq(TopologyEdges, In)) :
         chosen \in SUBSET {TopologyEdges[i] : i \in 1..Len(TopologyEdges)}}

TopologyIdLists ==
    {<<>>, <<"A", "B">>, <<"A", "B", "C">>, <<"C", "B", "A">>, <<"A", "A", "B">>,
     <<"B", "C", "D">>}

InitTopology ==
    /\ \E s \in TopologyStores :
           /\ edges = s.edges
           /\ nextId = s.nextId
    /\ history = [seeded |-> TRUE, log |-> <<>>, pruned |-> {}]
    /\ entities = World
    /\ clock = 0
    /\ decays = 0
    /\ last = NoLast
    /\ input = <<>>
    /\ pc = Idle
    /\ loc = NoLoc

\* again: the engine has run the strategy before.
StrategyGraphTopology(entity_ids) ==
    /\ last' = [op |-> "strategy_graph_topology", arg |-> [entity_ids |-> entity_ids],
                ret |-> strategy_graph_topology(edges, entity_ids, TRUE),
                pre |-> edges, preId |-> nextId, trace |-> <<>>,
                again |-> last.op # "none"]
    /\ UNCHANGED <<edges, nextId, entities, clock, decays, history, input, pc, loc>>

NextTopology == \E entity_ids \in TopologyIdLists : StrategyGraphTopology(entity_ids)

SpecTopology == InitTopology /\ [][NextTopology]_vars

(* -------------- specification of the runs over a wider world ---------- *)
\* The world with one more entity created within the last 24 hours: a Nightly
\* run without full_scan then analyzes three entities (q1, o1, r1) while p1,
\* created earlier, stays outside its scope.
T_Atlas == <<"A", "t", "l", "a", "s">>

WideWorld ==
    World \o << [id |-> "q1", title |-> T_Atlas, type |-> "project", summary |-> "None",
                 metadata |-> EmptyDict,
                 created_at |-> 12, updated_at |-> 12, source_event_id |-> "ev3"] >>

InitWide ==
    /\ \E s \in Stores :
           /\ edges = s.edges
           /\ nextId = s.nextId
           /\ history = [seeded |-> s.edges # {}, log |-> <<>>, pruned |-> {}]
    /\ entities = WideWorld
    /\ clock = 0
    /\ decays = 0
    /\ last = NoLast
    /\ input = <<>>
    /\ pc = Idle
    /\ loc = NoLoc

SpecWide == InitWide /\ [][Next]_vars

(* ------------- specification of the semantic strategy alone ----------- *)
MaxSemantic == 22

SemanticEntity(i) == PatternEntity("x" \o ToString(i), "person", T_Ann)

SemanticEntities(n) == [i \in 1..n |-> SemanticEntity(i)]

\* Alias tokens: e0, e1, e19, e20, e21 and a token that is no alias.
AliasTokens == {0, 1, 19, 20, 21, -1}

SemanticRecord(from_short, to_short) ==
    [from_entity_id |-> from_short, to_entity_id |-> to_short,
     relationship_type |-> "knows", confidence |-> 80, importance |-> 70,
     description |-> LlmDesc, start_date |-> NoDate, end_date |-> NoDate]

\* A record in which the model also wrote from_id, to_id and kind itself.
OwnIdsRecord(from_short, from_id) ==
    [from_entity_id |-> from_short, to_entity_id |-> 0,
     from_id |-> from_id, to_id |-> "x1", kind |-> "knows",
     relationship_type |-> "knows", confidence |-> 80, importance |-> 70,
     description |-> LlmDesc, start_date |-> NoDate, end_date |-> NoDate]

SemanticRecords ==
    {SemanticRecord(a, b) : a \in AliasTokens, b \in {0, 20}}
        \cup {OwnIdsRecord(a, id) : a \in {1, 20, -1}, id \in {"x2", "ghost"}}

SemanticResponses ==
    {[status |-> st, relationships |-> <<r>>] :
         st \in {"ok", "truncated"}, r \in SemanticRecords}
        \cup {[status |-> st, relationships |-> <<SemanticRecord(0, 1), r>>] :
                  st \in {"ok", "truncated"}, r \in SemanticRecords}
        \cup {[status |-> st, relationships |-> <<>>] : st \in {"ok", "badjson", "raise"}}

InitSemantic ==
    /\ input \in [entities : {SemanticEntities(n) : n \in {0, 1, 2, 20, 21, MaxSemantic}},
                  response : SemanticResponses]
    /\ edges = {}
    /\ nextId = 1
    /\ history = [seeded |-> FALSE, log |-> <<>>, pruned |-> {}]
    /\ entities = World
    /\ clock = 0
    /\ decays = 0
    /\ last = NoLast
    /\ pc = Idle
    /\ loc = NoLoc

StrategySemanticLlm ==
    /\ last.op = "none"
    /\ last' = [op |-> "strategy_semantic_llm", arg |-> input,
                ret |-> strategy_semantic_llm(input.entities, input.response),
                pre |-> edges, preId |-> nextId, trace |-> <<>>]
    /\ UNCHANGED <<edges, nextId, entities, clock, decays, history, input, pc, loc>>

NextSemantic == StrategySemanticLlm

SpecSemantic == InitSemantic /\ [][NextSemantic]_vars

(* ---------- specification of the nightly decay of one edge ------------ *)
\* Hundreds of decays take the exact weight beyond the integers of the
\* checker, so this specification writes a weight as n / 100^k with the
\* numerator n a sequence of digits in base 100^3, lowest digit first.
MaxNights == 240

BigBase == 100 * 100 * 100

\* The digits lo..hi of a times the small factor m, with the carry c coming
\* in from below: the digits d of the product and the carry c going out.
\* The range is halved so that long numerators need few nested calls.
RECURSIVE MulDigits(_, _, _, _, _)
MulDigits(a, m, lo, hi, c) ==
    IF lo > hi THEN [d |-> <<>>, c |-> c]
    ELSE IF lo = hi
    THEN [d |-> <<(a[lo] * m + c) % BigBase>>, c |-> (a[lo] * m + c) \div BigBase]
    ELSE CHOOSE r \in
             UNION {UNION {{[d |-> low.d \o high.d, c |-> high.c] :
                               high \in {MulDigits(a, m, mid + 1, hi, low.c)}} :
                           low \in {MulDigits(a, m, lo, mid, c)}} :
                    mid \in {(lo + hi) \div 2}} : TRUE

BigMul(a, m) ==
    CHOOSE q \in {IF r.c = 0 THEN r.d ELSE Append(r.d, r.c) :
                      r \in {MulDigits(a, m, 1, Len(a), 0)}} : TRUE

BigLt(a, b) ==
    IF Len(a) # Len(b) THEN Len(a) < Len(b)
    ELSE \E i \in 1..Len(a) : a[i] < b[i] /\ \A j \in (i + 1)..Len(a) : a[j] = b[j]

Pow100(k) ==
    [i \in 1..(k \div 3 + 1) |->
        IF i <= k \div 3 THEN 0
        ELSE IF k % 3 = 0 THEN 1 ELSE IF k % 3 = 1 THEN 100 ELSE 100 * 100]

BigOne == [n |-> <<1>>, k |-> 0]

\* weight < threshold, for a threshold given as a fraction
BigBelow(w, threshold) ==
    BigLt(BigMul(w.n, threshold.d), BigMul(Pow100(w.k), threshold.n))

\* Mutant: the weight is written back as it was read.
BigDecay_keep(w, decay_factor) == w

\* new_weight = edge.weight * decay_factor, for a factor in hundredths
BigDecay(w, decay_factor) ==
    [n |-> BigMul(w.n, decay_factor.n), k |-> w.k + 1]

\* The decay and prune steps of a Nightly run whose strategies propose
\* nothing for the stored edge.
NightlyTail(store, now) ==
    LET decayed == {[e EXCEPT !.weight = BigDecay(e.weight, NightlyDecay),
                              !.updated_at = now] : e \in store}
    IN {e \in decayed : ~BigBelow(e.weight, NightlyPrune)}

\* One edge, as create_or_update_edge has just created it (weight 1.0).
InitDecay ==
    /\ edges = {[e EXCEPT !.weight = BigOne] :
                    e \in create_or_update_edge({}, 1, PropA(90), 0).edges}
    /\ nextId = 2
    /\ history = [seeded |-> TRUE, log |-> <<>>, pruned |-> {}]
    /\ entities = <<>>
    /\ clock = 0
    /\ decays = 0
    /\ last = NoLast
    /\ input = <<>>
    /\ pc = Idle
    /\ loc = NoLoc

NightlyRun ==
    /\ decays < MaxNights
    /\ edges' = NightlyTail(edges, clock + 1)
    /\ clock' = clock + 1
    /\ decays' = decays + 1
    /\ last' = [op |-> "run_nightly", pre |-> edges, preId |-> nextId, trace |-> <<>>]
    /\ UNCHANGED <<nextId, entities, history, input, pc, loc>>

NextDecay == NightlyRun

\* The scheduler starts the Nightly job every day.
SpecDecay == InitDecay /\ [][NextDecay]_vars /\ WF_vars(NightlyRun)

(* ============================== properties ============================ *)
Triples(store) == {TripleOf(e) : e \in store}

EdgesOf(store, T) == {e \in store : TripleOf(e) = T}

IsRun(op) == op \in {"run_incremental", "run_nightly", "run_on_demand"}

\* C1: in every state reached by Incremental, Nightly and On-Demand runs that
\* execute one at a time, the edge store holds at most one edge for each
\* (from_id, to_id, kind) triple.
C1_TripleUnique ==
    \A a, b \in edges : TripleOf(a) = TripleOf(b) => a.id = b.id

\* A second run has both created an edge and reinforced an existing one.
C1_Witness ==
    /\ clock = 2
    /\ IsRun(last.op)
    /\ last.ret.edges_created >= 1
    /\ last.ret.edges_updated >= 1
    /\ \E e \in edges : e.metadata["reinforcement_count"] >= 1 /\ e.last_reinforced_at = clock

\* The create_or_update_edge calls of the log for triple T, in call order.
CallsFor(T) ==
    LET IsT(c) == c.call = "create_or_update_edge" /\ c.triple = T
    IN SelectSeq(history.log, IsT)

OnlyEdgeCalls == \A i \in 1..Len(history.log) : history.log[i].call = "create_or_update_edge"

MaxConfidence(calls) ==
    CHOOSE m \in {calls[i].confidence : i \in 1..Len(calls)} :
        \A i \in 1..Len(calls) : calls[i].confidence <= m

\* C2: starting with no edge for triple T, after N >= 1 sequential
\* create_or_update_edge calls with proposals for T (nothing else in
\* between), exactly one edge for T exists, with weight 1.0 + (N-1),
\* reinforcement_count N-1 and confidence the maximum of the N submitted
\* confidences; the first call returned False, every later call True.
C2_Reinforcement ==
    (~history.seeded /\ OnlyEdgeCalls) =>
        \A T \in {history.log[i].triple : i \in 1..Len(history.log)} :
            LET calls == CallsFor(T)
                N == Len(calls)
            IN (\A i \in 1..N : calls[i].confidence # NoneNum) =>
                  /\ Cardinality(EdgesOf(edges, T)) = 1
                  /\ \A e \in EdgesOf(edges, T) :
                        /\ e.weight.n = N * e.weight.d
                        /\ e.metadata["reinforcement_count"] = N - 1
                        /\ e.confidence = MaxConfidence(calls)
                  /\ calls[1].ret = FALSE
                  /\ \A i \in 2..N : calls[i].ret = TRUE

\* Three calls for one triple, the largest confidence not submitted last.
C2_Witness ==
    /\ ~history.seeded
    /\ OnlyEdgeCalls
    /\ Len(history.log) = 3
    /\ Len(CallsFor(<<"r1", "o1", "role_at">>)) = 3
    /\ history.log[2].confidence = 90
    /\ history.log[3].confidence = 60

\* C4: a pruned edge never comes back, and a later detection of a pruned
\* triple that has no edge creates a new edge (a new row, not the pruned
\* one) at weight 1.0 with reinforcement_count 0 and detected_in_events
\* holding only the new detection's event id, if it has one.
C4_PrunedStaysGone ==
    /\ \A p \in history.pruned : \A e \in edges : e.id # p.id
    /\ (/\ last.op = "create_or_update_edge"
        /\ TripleOf(last.arg.relationship) \in Triples(history.pruned)
        /\ EdgesOf(last.pre, TripleOf(last.arg.relationship)) = {}) =>
           LET rel == last.arg.relationship
               event_id == SourceEventOf(rel)
               made == EdgesOf(edges, TripleOf(rel))
           IN /\ last.ret = FALSE
              /\ Cardinality(made) = 1
              /\ \A e \in made :
                    /\ e.weight = One
                    /\ e.metadata["reinforcement_count"] = 0
                    /\ e.metadata["detected_in_events"] =
                           IF Truthy(event_id) THEN <<event_id>> ELSE <<>>
                    /\ e.created_at = clock
                    /\ e.confidence = Get(rel, "confidence", 100)

\* The reinforced edge p1 -> r1 (weight 1.5, detected in ev1) was pruned and
\* the triple has been detected again, in ev2.
C4_Witness ==
    /\ last.op = "create_or_update_edge"
    /\ last.arg.relationship = PropB(70, "ev2")
    /\ last.ret = FALSE
    /\ \E p \in history.pruned :
          /\ TripleOf(p) = <<"p1", "r1", "works_with">>
          /\ p.metadata["reinforcement_count"] = 1
          /\ p.metadata["detected_in_events"] = <<"ev1">>
          /\ p.weight = [n |-> 3, d |-> 2]

\* C5: apply_global_decay(f) multiplies the weight of every edge of the store
\* by f, whatever its kind, age or weight, changes nothing else of the graph,
\* and returns the number of edges; weights 2.0, 1.5 and 0.5 with f = 0.9
\* become 1.8, 1.35 and 0.45.
C5_DecayEveryEdge ==
    last.op = "apply_global_decay" =>
        LET f == last.arg.decay_factor
        IN /\ {e.id : e \in edges} = {e.id : e \in last.pre}
           /\ Cardinality(edges) = Cardinality(last.pre)
           /\ \A e \in last.pre : \E e2 \in edges :
                 /\ e2.id = e.id
                 /\ e2.weight.n * e.weight.d * f.d = e.weight.n * f.n * e2.weight.d
                 /\ TripleOf(e2) = TripleOf(e)
                 /\ e2.confidence = e.confidence
                 /\ e2.metadata = e.metadata
                 /\ e2.last_reinforced_at = e.last_reinforced_at
           /\ last.ret = Cardinality(last.pre)
           /\ (last.pre = SeedStore.edges /\ f = [n |-> 9, d |-> 10]) =>
                 {<<e.from_id, e.weight>> : e \in edges} =
                     {<<"r1", [n |-> 9, d |-> 5]>>, <<"p1", [n |-> 27, d |-> 20]>>,
                      <<"o1", [n |-> 9, d |-> 20]>>}

\* Weights 2.0, 1.5 and 0.5 have been decayed by 0.9.
C5_Witness ==
    /\ last.op = "apply_global_decay"
    /\ last.arg.decay_factor = [n |-> 9, d |-> 10]
    /\ {e.weight : e \in last.pre} = {[n |-> 2, d |-> 1], [n |-> 3, d |-> 2], Half}
    /\ {e.weight : e \in edges} =
           {[n |-> 9, d |-> 5], [n |-> 27, d |-> 20], [n |-> 9, d |-> 20]}
    /\ last.ret = 3

\* C6: prune_weak_edges(t) deletes exactly the edges whose weight is strictly
\* below t (an edge of weight t is kept), leaves the other edges as they
\* were, and returns the number of edges deleted.
C6_PruneStrictlyBelow ==
    last.op = "prune_weak_edges" =>
        LET t == last.arg.threshold
            below == {e \in last.pre : e.weight.n * t.d < t.n * e.weight.d}
        IN /\ edges = last.pre \ below
           /\ last.ret = Cardinality(below)

\* Threshold 1.5 on weights 2.0, 1.5 and 0.5: only the 0.5 edge is deleted.
C6_Witness ==
    /\ last.op = "prune_weak_edges"
    /\ last.arg.threshold = [n |-> 3, d |-> 2]
    /\ last.pre = SeedStore.edges
    /\ {e.weight : e \in edges} = {[n |-> 2, d |-> 1], [n |-> 3, d |-> 2]}
    /\ last.ret = 1

\* The indices of the proposals that carry a confidence of at least
\* min_confidence.
KeptIndices(relationships) ==
    {i \in 1..Len(relationships) :
        /\ "confidence" \in DOMAIN relationships[i]
        /\ relationships[i].confidence >= 50}

\* C7: _filter_by_confidence returns exactly the proposals whose confidence
\* is at least min_confidence (equal is kept, a proposal without a
\* confidence is dropped), in their original relative order, and leaves the
\* input list as it was.
C7_FilterKeepsAtLeastMin ==
    last.op = "_filter_by_confidence" =>
        LET kept == KeptIndices(input)
        IN /\ Len(last.ret) = Cardinality(kept)
           /\ \A i \in kept :
                 last.ret[Cardinality({j \in kept : j <= i})] = input[i]
           /\ input = last.arg.relationships

\* A proposal at exactly min_confidence is kept between a dropped proposal
\* without confidence and a dropped one below min_confidence.
C7_Witness ==
    /\ last.op = "_filter_by_confidence"
    /\ Len(input) = 3
    /\ "confidence" \notin DOMAIN input[1]
    /\ Get(input[2], "confidence", NoneNum) = 50
    /\ Get(input[3], "confidence", NoneNum) = 30
    /\ last.ret = <<input[2]>>

\* The entities of the store that event_id produced.
EventEntities(event_id) ==
    {i \in 1..Len(entities) : entities[i].source_event_id = event_id}

\* C8: run_incremental(event_id) for an event with fewer than 2 entities
\* returns edges_created = 0 and edges_updated = 0, invokes no detection
\* strategy and creates, updates or deletes no edge.
C8_IncrementalNoOp ==
    (/\ last.op = "run_incremental"
     /\ Cardinality(EventEntities(last.arg.event_id)) < 2) =>
        /\ last.ret.edges_created = 0
        /\ last.ret.edges_updated = 0
        /\ last.trace = <<>>
        /\ edges = last.pre
        /\ nextId = last.preId

\* An Incremental run for the one-entity event ev2 on a store with edges.
C8_Witness ==
    /\ last.op = "run_incremental"
    /\ last.arg.event_id = "ev2"
    /\ Cardinality(EventEntities("ev2")) = 1
    /\ last.pre # {}
    /\ last.ret.edges_created = 0
    /\ edges = last.pre

\* The proposals the five strategies of the last Nightly run returned that
\* pass the confidence filter.
NightlyProposals ==
    LET scope == IF last.arg.full_scan THEN get_all_entities(entities)
                 ELSE get_entities_created_since(entities, WallNow - NightlyWindowHours)
    IN Surviving(NightlyStrategies(last.pre, EntityDicts(scope), last.arg.response,
                                   last.arg.service_ok, NoFaults), "None")

\* The weight triple T has when the reinforcement loop of the last run ends:
\* one detection creates at 1.0, every other detection adds 1.0.
BeforeDecay(T, proposals) ==
    LET cnt == Cardinality({i \in 1..Len(proposals) : TripleOf(proposals[i]) = T})
        old == EdgesOf(last.pre, T)
    IN IF old = {} THEN [n |-> cnt, d |-> 1]
       ELSE LET o == CHOOSE e \in old : TRUE
            IN [n |-> o.weight.n + cnt * o.weight.d, d |-> o.weight.d]

\* C9: a Nightly run invokes all five strategies, creates or reinforces an
\* edge for every proposal that passes the filter, then decays once by 0.99
\* and only then prunes once below 0.1; the decay also applies to the edges
\* created or reinforced in the run.
C9_NightlyOrder ==
    last.op = "run_nightly" =>
        LET proposals == NightlyProposals
            k == Len(proposals)
            detected == {TripleOf(proposals[i]) : i \in 1..k}
            all == Triples(last.pre) \cup detected
            Decayed(T) == Rat(BeforeDecay(T, proposals).n * 99,
                              BeforeDecay(T, proposals).d * 100)
            kept == {T \in all : ~(Decayed(T).n * 10 < Decayed(T).d)}
        IN /\ Len(last.trace) = 5 + k + 2
           /\ SubSeq(last.trace, 1, 5) = <<"pattern_based", "semantic_llm",
                                           "embedding_similarity", "temporal",
                                           "graph_topology">>
           /\ \A i \in 6..(5 + k) : last.trace[i] = "create_or_update_edge"
           /\ last.trace[5 + k + 1] = "apply_global_decay"
           /\ last.trace[5 + k + 2] = "prune_weak_edges"
           /\ last.ret.edges_created + last.ret.edges_updated = k
           /\ last.ret.edges_created = Cardinality(detected \ Triples(last.pre))
           /\ Triples(edges) = kept
           /\ Cardinality(edges) = Cardinality(kept)
           /\ \A e \in edges : e.weight = Decayed(TripleOf(e))
           /\ last.ret.edges_pruned = Cardinality(all \ kept)

\* A Nightly run has created an edge, reinforced one, and pruned an edge that
\* was at exactly the prune threshold before the run's decay.
C9_Witness ==
    /\ last.op = "run_nightly"
    /\ last.ret.edges_created >= 1
    /\ last.ret.edges_updated >= 1
    /\ last.ret.edges_pruned >= 1
    /\ \E p \in last.pre :
          /\ p.weight = [n |-> 1, d |-> 10]
          /\ \A e \in edges : e.id # p.id
    /\ \E e \in edges : e.created_at = clock /\ e.weight = [n |-> 99, d |-> 100]

InsertedEdges(T) == {e \in EdgesOf(edges, T) : e.created_at > 0}

\* C3: concurrent Incremental runs are not serialized per triple: every run
\* that looked a triple up and found no edge inserts one, so the store holds
\* one inserted edge for each run that inserted the triple - two edges for T
\* when both runs looked T up before either inserted.
C3_RaceDuplicates ==
    \A T \in Triples(edges) :
        Cardinality(InsertedEdges(T)) = Cardinality({w \in Workers : T \in loc[w].inserted})

\* Both runs have ended, each has inserted an edge for r1 -> o1 (role_at), and
\* the store, which had no edges, holds two edges for that triple.
C3_Witness ==
    /\ \A w \in Workers : pc[w] = "done" /\ <<"r1", "o1", "role_at">> \in loc[w].inserted
    /\ ~history.seeded
    /\ Cardinality(EdgesOf(edges, <<"r1", "o1", "role_at">>)) = 2

\* The entity dicts the last engine run analyzed.
AnalyzedDicts ==
    IF last.op = "run_nightly"
    THEN EntityDicts(IF last.arg.full_scan THEN get_all_entities(entities)
                     ELSE get_entities_created_since(entities, WallNow - NightlyWindowHours))
    ELSE EntityDicts(get_entities_by_event(entities, last.arg.event_id)
                         \o get_recent_entities(entities, RecentLimit))

\* What each strategy of the last engine run contributes when a strategy
\* whose external call failed contributes nothing and every other strategy
\* contributes what it detects.
Contributions ==
    LET dicts == AnalyzedDicts
        semantic == IF last.arg.response.status = "ok"
                    THEN strategy_semantic_llm(dicts, last.arg.response) ELSE <<>>
    IN IF last.op = "run_incremental"
       THEN strategy_pattern_based(dicts) \o semantic
       ELSE strategy_pattern_based(dicts)
            \o semantic
            \o (IF last.arg.service_ok THEN strategy_embedding_similarity(dicts, TRUE)
                ELSE <<>>)
            \o strategy_temporal(dicts)
            \o (IF last.arg.faults.reads_ok
                THEN strategy_graph_topology(last.pre,
                                             [i \in 1..Len(dicts) |-> dicts[i].id], TRUE)
                ELSE <<>>)

StrategyFailed ==
    \/ last.arg.response.status # "ok"
    \/ last.op = "run_nightly" /\ ~last.arg.service_ok
    \/ last.op = "run_nightly" /\ ~last.arg.faults.reads_ok

SurvivingOfLast ==
    IF last.op = "run_nightly"
    THEN Surviving(NightlyStrategies(last.pre, AnalyzedDicts, last.arg.response,
                                     last.arg.service_ok, last.arg.faults), "None")
    ELSE Surviving(IncrementalStrategies(entities,
                                         get_entities_by_event(entities, last.arg.event_id),
                                         last.arg.response), last.arg.event_id)

\* The store after the first n proposals of todo have been created or
\* reinforced one after the other, starting from store.
RECURSIVE AfterFirst(_, _, _, _)
AfterFirst(store, nid, todo, n) ==
    IF n = 0 THEN store
    ELSE LET r == create_or_update_edge(store, nid, Head(todo), clock)
         IN AfterFirst(r.edges, r.nextId, Tail(todo), n - 1)

\* C12: when the store call of the k-th surviving proposal's
\* create_or_update_edge raises, the error leaves the run, the proposals from
\* the k-th on are not processed, a Nightly run neither decays nor prunes, and
\* the store keeps the mutations of the first k-1 proposals.
C12_PartialBatchNoRollback ==
    (/\ last.op \in {"run_incremental", "run_nightly"}
     /\ last.trace # <<>>
     /\ last.arg.faults.fail_at >= 1
     /\ Len(SurvivingOfLast) >= last.arg.faults.fail_at) =>
        LET k == last.arg.faults.fail_at
            calls == {i \in 1..Len(last.trace) : last.trace[i] = "create_or_update_edge"}
        IN /\ last.raised
           /\ last.escaped
           /\ Cardinality(calls) = k
           /\ \A i \in 1..Len(last.trace) :
                 last.trace[i] \notin {"apply_global_decay", "prune_weak_edges"}
           /\ edges = AfterFirst(last.pre, last.preId, SurvivingOfLast, k - 1)
           /\ \A e \in last.pre : \E e2 \in edges : e2.id = e.id /\ e2.updated_at = e.updated_at

\* A Nightly run on the seeded store raised at its second proposal: the first
\* proposal's reinforcement is in the store, undecayed, next to the untouched
\* weight 0.5 edge.
C12_Witness ==
    /\ last.op = "run_nightly"
    /\ last.arg.faults.fail_at = 2
    /\ last.raised
    /\ history.seeded
    /\ \E e \in edges, o \in last.pre :
          /\ e.id = o.id
          /\ e.last_reinforced_at = clock
          /\ e.weight = RatAddOne(o.weight)
    /\ \E e \in edges : e.weight = Half /\ e \in last.pre

\* C15: an error that leaves a mode invocation stops at the trigger layer:
\* run_nightly_consolidation returns {status: 'error', error: message}
\* instead of raising, and Archivist.process_event catches a failing
\* run_incremental and still carries out the later steps for the event.
C15_TriggerBoundary ==
    /\ last.op = "run_nightly_consolidation" =>
          /\ ~last.escaped
          /\ last.raised => last.ret = [status |-> "error", error |-> "Exception"]
          /\ ~last.raised => "edges_created" \in DOMAIN last.ret
    /\ last.op = "process_event" =>
          /\ ~last.escaped
          /\ last.ret.status = "success"
          /\ Len(last.trace) >= 4
          /\ SubSeq(last.trace, Len(last.trace) - 3, Len(last.trace)) =
                 <<"detect_alias_and_update", "chunk_text", "create_signal",
                   "update_event_status">>

\* The Nightly run inside the scheduled job raised at its first edge write,
\* and the job returned the error record.
C15_Witness ==
    /\ last.op = "run_nightly_consolidation"
    /\ last.arg.faults.fail_at = 1
    /\ last.raised
    /\ ~last.escaped
    /\ last.ret.status = "error"

\* The entities created or updated within the 24 hours before the run.
TouchedInWindow ==
    {i \in 1..Len(entities) :
        \/ entities[i].created_at >= WallNow - NightlyWindowHours
        \/ entities[i].updated_at >= WallNow - NightlyWindowHours}

\* C13: run_nightly(full_scan=False) analyzes exactly the entities created or
\* updated within the 24 hours before the run, run_nightly(full_scan=True)
\* analyzes every entity, and entities_analyzed is the size of that scope.
C13_NightlyScope ==
    last.op = "run_nightly" =>
        last.ret.entities_analyzed =
            IF last.arg.full_scan THEN Len(entities) ELSE Cardinality(TouchedInWindow)

\* A Nightly or On-Demand run is in its reinforcement, decay or prune phase.
NightlyActive(w) ==
    /\ loc[w].mode = "nightly"
    /\ pc[w] \in {"lookup", "write", "decay", "decay_write", "prune"}

\* C14: at most one Nightly or On-Demand run is active at any time: no second
\* such run is in its reinforcement, decay or prune phase while another has
\* not finished.
C14_NightlyMutualExclusion ==
    \A v, w \in Workers : (NightlyActive(v) /\ NightlyActive(w)) => v = w

\* The text the first matching pattern extracts from a role title ("at" is
\* tried before ","), and whether any pattern matches.
FirstPatternHit(title) ==
    LET at == RegexSearch(title, <<"a", "t">>, 1)
        comma == RegexSearch(title, <<",">>, 0)
    IN IF at.found THEN [found |-> TRUE, text |-> Strip(at.group)]
       ELSE IF comma.found THEN [found |-> TRUE, text |-> Strip(comma.group)]
       ELSE [found |-> FALSE, text |-> <<>>]

\* Positions of the organizations a role's extracted text matches.
MatchingOrgs(ents, text) ==
    {o \in 1..Len(ents) :
        /\ ents[o].type = "organization"
        /\ \/ Contains(Lower(ents[o].title), Lower(text))
           \/ Contains(Lower(text), Lower(ents[o].title))}

\* C16: strategy_pattern_based emits at most one proposal per role entity.
\* Only the first pattern that matches the role's title is used: the role gets
\* a role_at proposal (confidence 0.95, importance 0.85) to the first
\* organization in input order whose title case-insensitively contains or is
\* contained in the extracted text, and no proposal when no organization
\* matches.  Nothing else is proposed.
C16_PatternFirstMatchOnly ==
    last.op = "strategy_pattern_based" =>
        LET ents == last.arg.entities
            out == last.ret
            Of(r) == {i \in 1..Len(out) : out[i].from_id = ents[r].id}
        IN /\ \A i \in 1..Len(out) :
                  /\ out[i].kind = "role_at"
                  /\ out[i].confidence = 95
                  /\ out[i].importance = 85
                  /\ \E r \in 1..Len(ents) : ents[r].type = "role" /\ ents[r].id = out[i].from_id
           /\ \A r \in 1..Len(ents) :
                  ents[r].type = "role" =>
                      LET hit == FirstPatternHit(ents[r].title)
                          orgs == IF hit.found THEN MatchingOrgs(ents, hit.text) ELSE {}
                      IN /\ Cardinality(Of(r)) <= 1
                         /\ (Of(r) # {}) <=> (orgs # {})
                         /\ \A i \in Of(r) :
                                \A o \in orgs :
                                    (\A y \in orgs : o <= y) => out[i].to_id = ents[o].id

\* A role whose title matches both patterns, listed after two organizations:
\* the comma pattern's text would match the first one, the "at" pattern's text
\* matches the second, and the single proposal goes to the second.
C16_Witness ==
    /\ last.op = "strategy_pattern_based"
    /\ Len(last.arg.entities) = 3
    /\ last.arg.entities[1].id = "oa"
    /\ last.arg.entities[2].id = "ob"
    /\ last.arg.entities[3].id = "rb"
    /\ Len(last.ret) = 1
    /\ last.ret[1].to_id = "ob"

\* Day numbers standing for the unbounded past and the unbounded future: before
\* and after every date parse_date can return.
MinusInfinity == DayNumber(1, 1, 1) - 1

PlusInfinity == DayNumber(9999, 12, 31) + 1

StartDay(e) ==
    LET d == parse_date(Get(e.metadata, "start_date", NoDate))
    IN IF d.ok THEN d.days ELSE MinusInfinity

EndDay(e) ==
    LET d == parse_date(Get(e.metadata, "end_date", NoDate))
    IN IF d.ok THEN d.days ELSE PlusInfinity

HasParseableBound(e) ==
    \/ parse_date(Get(e.metadata, "start_date", NoDate)).ok
    \/ parse_date(Get(e.metadata, "end_date", NoDate)).ok

Max2(a, b) == IF a >= b THEN a ELSE b

Min2(a, b) == IF a <= b THEN a ELSE b

TwoHops(store, origin, target) ==
    \E first_edge, second_edge \in store :
        /\ first_edge.from_id = origin
        /\ second_edge.from_id = first_edge.to_id
        /\ second_edge.to_id = target

DirectEdge(store, origin, target) ==
    \E e \in store : e.from_id = origin /\ e.to_id = target

\* C18: with at least 3 entity ids, strategy_graph_topology proposes an
\* inferred_connection (confidence 0.5, metadata naming the intermediate
\* entity and both edge kinds) from an origin of the input to a target two
\* outgoing hops away exactly when the target differs from the origin and no
\* edge of any kind goes from origin to target; no ordered pair is proposed
\* twice in a run, earlier runs change nothing, and fewer than 3 ids give no
\* proposal.
C18_TopologyInference ==
    last.op = "strategy_graph_topology" =>
        LET ids == last.arg.entity_ids
            out == last.ret
            origins == {ids[i] : i \in 1..Len(ids)}
            targets == {e.to_id : e \in edges}
            expected == {pair \in origins \X targets :
                            /\ pair[1] # pair[2]
                            /\ TwoHops(edges, pair[1], pair[2])
                            /\ ~DirectEdge(edges, pair[1], pair[2])}
        IN IF Len(ids) < 3 THEN out = <<>>
           ELSE /\ {<<out[k].from_id, out[k].to_id>> : k \in 1..Len(out)} = expected
                /\ \A j, k \in 1..Len(out) :
                       (out[j].from_id = out[k].from_id /\ out[j].to_id = out[k].to_id)
                           => j = k
                /\ \A k \in 1..Len(out) :
                       /\ out[k].kind = "inferred_connection"
                       /\ out[k].confidence = 50
                       /\ HasEdge(edges, out[k].from_id,
                                  out[k].metadata.intermediate_entity_id,
                                  out[k].metadata.first_edge_kind)
                       /\ HasEdge(edges, out[k].metadata.intermediate_entity_id,
                                  out[k].to_id, out[k].metadata.second_edge_kind)

\* A -> B (x) and B -> C (y) with no A -> C edge: a run on [A, B, C] that
\* follows an earlier run yields exactly one proposal, A -> C via B.
C18_Witness ==
    /\ last.op = "strategy_graph_topology"
    /\ last.again
    /\ last.arg.entity_ids = <<"A", "B", "C">>
    /\ Triples(edges) = {<<"A", "B", "x">>, <<"B", "C", "y">>}
    /\ Len(last.ret) = 1
    /\ last.ret[1].from_id = "A"
    /\ last.ret[1].to_id = "C"
    /\ last.ret[1].metadata.intermediate_entity_id = "B"

\* C19: an Incremental run does not create or reinforce a triple more often
\* than it has distinct proposals for it.  r1 and o1 are both entities of
\* event ev1 and among the 50 most recent entities; they count once, so the
\* run for ev1 detects r1 -role_at-> o1 once, and when that triple had no edge
\* before the run its edge ends the run at weight 1.0 with reinforcement_count
\* 0.
C19_IncrementalCountsOnce ==
    (/\ last.op = "run_incremental"
     /\ last.arg.event_id = "ev1"
     /\ ~HasEdge(last.pre, "r1", "o1", "role_at")) =>
        \A e \in Matching(edges, "r1", "o1", "role_at") :
            /\ e.weight = One
            /\ e.metadata.reinforcement_count = 0

RECURSIVE CountIn(_, _)
CountIn(q, x) ==
    IF q = <<>> THEN 0 ELSE (IF Head(q) = x THEN 1 ELSE 0) + CountIn(Tail(q), x)

RECURSIVE SumOver(_, _)
SumOver(S, id) ==
    IF S = {} THEN 0
    ELSE LET w == CHOOSE x \in S : TRUE
         IN CountIn(loc[w].reinforced, id) + SumOver(S \ {w}, id)

\* Reinforcements of edge id completed so far, by all runs.
ReinforcementsDone(id) == SumOver(Workers, id)

\* Decay writes of edge id completed so far, by all runs.
DecaysDone(id) == Cardinality({w \in Workers : id \in loc[w].decayed})

RECURSIVE RatPow(_, _)
RatPow(a, n) == IF n = 0 THEN One ELSE RatMul(a, RatPow(a, n - 1))

RatAdd(a, b) == Rat(a.n * b.d + b.n * a.d, a.d * b.d)

\* n1/d1 < n2/d2 for non-negative fractions, by integer parts and then the
\* reciprocals of the remainders, so that no product is formed.
RECURSIVE FracLt(_, _, _, _)
FracLt(n1, d1, n2, d2) ==
    IF n1 \div d1 # n2 \div d2 THEN n1 \div d1 < n2 \div d2
    ELSE IF n2 % d2 = 0 THEN FALSE
    ELSE IF n1 % d1 = 0 THEN TRUE
    ELSE FracLt(d2, n2 % d2, d1, n1 % d1)

RatLe(a, b) == ~FracLt(b.n, b.d, a.n, a.d)

\* C20: under any interleaving of concurrent create_or_update_edge calls and
\* apply_global_decay passes on an existing edge, no update is lost: once k
\* reinforcements and d decay writes of the edge have completed, its
\* reinforcement_count has grown by exactly k, and its weight lies between
\* (w0 + k) * 0.99^d (every +1.0 decayed d times) and w0 * 0.99^d + k (no
\* +1.0 decayed).
C20_NoLostUpdate ==
    \A e0 \in last.pre :
        \A e \in edges :
            e.id = e0.id =>
                LET k == ReinforcementsDone(e.id)
                    scale == RatPow(NightlyDecay, DecaysDone(e.id))
                IN /\ e.metadata.reinforcement_count = e0.metadata.reinforcement_count + k
                   /\ RatLe(RatMul(RatAdd(e0.weight, [n |-> k, d |-> 1]), scale), e.weight)
                   /\ RatLe(e.weight, RatAdd(RatMul(e0.weight, scale), [n |-> k, d |-> 1]))

SetOfSeq(q) == {q[i] : i \in 1..Len(q)}

NoRepeat(q) == \A i, j \in 1..Len(q) : q[i] = q[j] => i = j

\* The edge of the store before the last run that has the id of e.
Earlier(e) == {o \in last.pre : o.id = e.id}

\* The last run created e or reinforced it.
TouchedByLast(e) ==
    \/ Earlier(e) = {}
    \/ \E o \in Earlier(e) :
           e.metadata.reinforcement_count > o.metadata.reinforcement_count

WorkingSet ==
    LET analyzed ==
            IF last.op = "run_on_demand" THEN get_all_entities(entities)
            ELSE IF last.op = "run_nightly"
            THEN IF last.arg.full_scan THEN get_all_entities(entities)
                 ELSE get_entities_created_since(entities, WallNow - NightlyWindowHours)
            ELSE get_entities_by_event(entities, last.arg.event_id)
                     \o get_recent_entities(entities, RecentLimit)
    IN {analyzed[i].id : i \in 1..Len(analyzed)}

\* C22: after every engine run, each edge the run created or reinforced joins
\* two entities of the run's working set (the entities the run analyzed); a
\* proposal naming an entity outside it, the two-hop targets of the
\* graph-topology strategy included, has not become an edge.
C22_OnlyWorkingSet ==
    IsRun(last.op) =>
        \A e \in edges :
            TouchedByLast(e) => e.from_id \in WorkingSet /\ e.to_id \in WorkingSet

\* The ids of the entities the semantic strategy puts into its prompt.
PromptIds ==
    {last.arg.entities[i].id :
         i \in 1..(IF Len(last.arg.entities) > SemanticLimit THEN SemanticLimit
                   ELSE Len(last.arg.entities))}

\* The records of the response whose two alias tokens name prompt entities.
ResolvingRecords ==
    LET rels == last.arg.response.relationships
        Known(a) == a >= 0 /\ a < Cardinality(PromptIds)
    IN {i \in 1..Len(rels) : Known(rels[i].from_entity_id) /\ Known(rels[i].to_entity_id)}

\* C23: every proposal strategy_semantic_llm returns joins two of the first 20
\* entities of its input, and it returns no more proposals than the response
\* has records whose two alias tokens resolve: a record with an alias that
\* does not resolve is not returned, whatever else the record holds.
C23_AliasResolved ==
    last.op = "strategy_semantic_llm" =>
        /\ \A i \in 1..Len(last.ret) :
               last.ret[i].from_id \in PromptIds /\ last.ret[i].to_id \in PromptIds
        /\ Len(last.ret) <= Cardinality(ResolvingRecords)

\* C24: for a response that is cut off after k complete records,
\* strategy_semantic_llm returns what it returns for the response holding
\* exactly those k records.
C24_TruncatedSalvaged ==
    (last.op = "strategy_semantic_llm" /\ last.arg.response.status = "truncated") =>
        last.ret = strategy_semantic_llm(last.arg.entities,
                                         [last.arg.response EXCEPT !.status = "ok"])

\* The surviving proposals of the last engine run, every strategy computed on
\* the store as it was before the run, in strategy order and then proposal
\* order.
ProposalsOfLast ==
    IF last.op = "run_incremental"
    THEN IF Len(get_entities_by_event(entities, last.arg.event_id)) < 2 THEN <<>>
         ELSE Surviving(IncrementalStrategies(entities,
                            get_entities_by_event(entities, last.arg.event_id),
                            last.arg.response), last.arg.event_id)
    ELSE Surviving(NightlyStrategies(
                       last.pre,
                       EntityDicts(IF last.op = "run_on_demand" \/ last.arg.full_scan
                                   THEN get_all_entities(entities)
                                   ELSE get_entities_created_since(entities,
                                            WallNow - NightlyWindowHours)),
                       last.arg.response, last.arg.service_ok, NoFaults), "None")

\* The triples of todo that are not in seen, each once, in order of first
\* occurrence.
RECURSIVE FirstNew(_, _)
FirstNew(todo, seen) ==
    IF todo = <<>> THEN <<>>
    ELSE IF TripleOf(Head(todo)) \in seen THEN FirstNew(Tail(todo), seen)
    ELSE <<TripleOf(Head(todo))>> \o FirstNew(Tail(todo), seen \cup {TripleOf(Head(todo))})

Occurrences(todo, T) == Cardinality({i \in 1..Len(todo) : TripleOf(todo[i]) = T})

\* C25: in every engine run all strategy calls precede the first
\* create_or_update_edge call, the proposals applied are the ones the
\* strategies compute on the store as it was before the run, and they are
\* applied in strategy order and then proposal order: the edges the run
\* created carry consecutive ids in the order in which their triples first
\* occur among the surviving proposals, and every edge was reinforced once
\* per further occurrence of its triple.
C25_StrategiesThenMutations ==
    IsRun(last.op) =>
        LET todo == ProposalsOfLast
            created == FirstNew(todo, Triples(last.pre))
        IN /\ \A i, j \in 1..Len(last.trace) :
                  (i < j /\ last.trace[i] = "create_or_update_edge") =>
                      last.trace[j] \notin {"pattern_based", "semantic_llm",
                                            "embedding_similarity", "temporal",
                                            "graph_topology"}
           /\ nextId = last.preId + Len(created)
           /\ \A k \in 1..Len(created) :
                  \E e \in edges : e.id = last.preId + k - 1 /\ TripleOf(e) = created[k]
           /\ \A e \in edges :
                  e.metadata.reinforcement_count =
                      Occurrences(todo, TripleOf(e))
                          + (IF Earlier(e) = {} THEN -1
                             ELSE (CHOOSE o \in Earlier(e) : TRUE).metadata.reinforcement_count)

\* A Nightly full scan on the empty store created three or more edges, the
\* role_at edge of the pattern strategy first, and none of them is an
\* inferred_connection although the new edges form a two-hop path.
C25_Witness ==
    /\ last.op = "run_nightly"
    /\ last.pre = {}
    /\ last.arg.full_scan
    /\ nextId >= last.preId + 3
    /\ \E e \in edges : e.id = last.preId /\ e.kind = "role_at"
    /\ \E a, b \in edges : a.to_id = b.from_id /\ a.from_id # b.to_id
    /\ \A e \in edges : e.kind # "inferred_connection"

\* C26: with Nightly runs occurring again and again, an edge created at weight
\* 1.0 and never reinforced is eventually deleted, and the run that deletes
\* it is the 230th: the edge is in the store after fewer than 230 runs and
\* gone from then on.
C26_EventuallyPruned ==
    /\ [](edges = {} <=> decays >= 230)
    /\ <>(edges = {})

\* The 230th run found the edge at a weight of 0.1 or more and deleted it.
C26_Witness ==
    /\ decays = 230
    /\ edges = {}
    /\ \E e \in last.pre : ~BigBelow(e.weight, NightlyPrune) /\ e.weight.k = 229

\* The fields of an edge row that reinforcement may write.
ReinforcedColumns == {"weight", "last_reinforced_at", "confidence", "metadata"}

ReinforcedKeys == {"reinforcement_count", "detected_in_events"}

\* C27: an edge that an engine run reinforced differs from what it was before
\* the run at most in weight, last_reinforced_at, confidence,
\* reinforcement_count and detected_in_events (and in the updated_at stamp
\* that the decay of a Nightly run writes): from_id, to_id, kind, importance,
\* description, start_date, end_date, source_event_id and every other
\* metadata key are as before, whatever the reinforcing proposals carried.
C27_ReinforceFrame ==
    IsRun(last.op) =>
        \A e \in edges : \A o \in Earlier(e) :
            e.metadata.reinforcement_count > o.metadata.reinforcement_count =>
                /\ DOMAIN e = DOMAIN o
                /\ \A f \in DOMAIN o \ (ReinforcedColumns \cup {"updated_at"}) : e[f] = o[f]
                /\ last.op = "run_incremental" => e.updated_at = o.updated_at
                /\ DOMAIN e.metadata = DOMAIN o.metadata
                /\ \A k \in DOMAIN o.metadata \ ReinforcedKeys : e.metadata[k] = o.metadata[k]

\* An Incremental run reinforced the seeded role_at edge (importance 0.7, a
\* test description, no strategy metadata) with the pattern strategy's
\* proposal (importance 0.85, its own description, metadata pattern_match and
\* source_strategy): the edge kept its importance and description and gained
\* no metadata key.
C27_Witness ==
    /\ last.op = "run_incremental"
    /\ \E i \in 1..Len(ProposalsOfLast) :
           LET p == ProposalsOfLast[i]
           IN /\ TripleOf(p) = <<"r1", "o1", "role_at">>
              /\ p.importance = 85
              /\ "source_strategy" \in DOMAIN p.metadata
    /\ \E e \in edges : \E o \in Earlier(e) :
           /\ TripleOf(e) = <<"r1", "o1", "role_at">>
           /\ e.metadata.reinforcement_count > o.metadata.reinforcement_count
           /\ e.importance = 70
           /\ e.description = TestDesc
           /\ "source_strategy" \notin DOMAIN e.metadata

\* C28: an Incremental run deletes no edge, leaves every edge that none of its
\* surviving proposals names exactly as it was, lowers no weight, and calls
\* only the pattern-based and the semantic strategy.
C28_IncrementalNoDecay ==
    last.op = "run_incremental" =>
        /\ \A o \in last.pre : \E e \in edges : e.id = o.id /\ ~RatLt(e.weight, o.weight)
        /\ \A o \in last.pre :
               (\A i \in 1..Len(ProposalsOfLast) : TripleOf(ProposalsOfLast[i]) # TripleOf(o))
                   => o \in edges
        /\ \A i \in 1..Len(last.trace) :
               last.trace[i] \in {"pattern_based", "semantic_llm", "create_or_update_edge"}

\* An Incremental run changed the store while an edge of weight 0.1, which
\* the next decay takes below the prune threshold, stayed as it was.
C28_Witness ==
    /\ last.op = "run_incremental"
    /\ edges # last.pre
    /\ \E e \in edges : e \in last.pre /\ e.weight = NightlyPrune

\* C29: no step lowers the confidence of an edge that is in the store before
\* and after it: a reinforcement stores the larger of the stored and the
\* proposed confidence, decay and prune leave the confidence of the edges
\* they keep alone.
C29_ConfidenceMonotone ==
    [][\A o \in edges : \A e \in edges' : e.id = o.id => e.confidence >= o.confidence]_vars

\* An edge of confidence 0.9 has been reinforced by a proposal of confidence
\* 0.6 and a decay has run.
C29_Witness ==
    /\ last.op = "create_or_update_edge"
    /\ last.ret = TRUE
    /\ last.arg.relationship.confidence = 60
    /\ \E e \in edges :
          /\ TripleOf(e) = TripleOf(last.arg.relationship)
          /\ e.confidence = 90
    /\ decays >= 1

\* C30: apply_global_decay leaves the set of edges as it is and changes
\* nothing of an edge but its weight and its updated_at stamp: confidence,
\* last_reinforced_at, reinforcement_count, detected_in_events and every
\* other field are as before the call.
C30_DecayFrame ==
    last.op = "apply_global_decay" =>
        /\ {e.id : e \in edges} = {o.id : o \in last.pre}
        /\ \A e \in edges : \E o \in last.pre :
               /\ o.id = e.id
               /\ e = [o EXCEPT !.weight = e.weight, !.updated_at = e.updated_at]

\* Decay has run on a store holding an edge that was reinforced at an
\* earlier time and carries a detected_in_events entry.
C30_Witness ==
    /\ last.op = "apply_global_decay"
    /\ \E e \in edges : \E o \in last.pre :
          /\ o.id = e.id
          /\ RatLt(e.weight, o.weight)
          /\ e.metadata.reinforcement_count >= 1
          /\ e.metadata.detected_in_events # <<>>
          /\ e.last_reinforced_at < clock
          /\ e.updated_at = clock

====
